---- MODULE Spec2Model ----
(***************************************************************************)
(* The subprocess execution and supervision engine of ccg_mcp:            *)
(* safe_claude_command / safe_coder_command (launcher, output pump,       *)
(* dual-timeout generator, cleanup) and the retry loop and outcome        *)
(* classification of claude_tool / coder_tool.                            *)
(*                                                                         *)
(* Time is counted in ticks of one poll interval of the supervisor loop   *)
(* (output_queue.get(timeout=0.5)); a second is TicksPerSecond ticks.     *)
(* Optional[...] values are sequences of length at most one: <<>> is None.*)
(* A Python string that the code splits on newlines (err_message) is the  *)
(* sequence of its lines; the empty string is <<"">>.                     *)
(***************************************************************************)
EXTENDS Integers, Sequences, FiniteSets, TLC

\* ------------------------------------------------------------------ bounds
\* lines a child may write over one invocation (all attempts together)
MaxLines == 3
\* largest max_retries an invocation is given
MaxRetries == 2
\* ticks the model lets pass while cleanup waits in process.stdout.close()
MaxStall == 2
\* ticks the consumer of a slow invocation may spend on the lines of an attempt
MaxDelay == 2
\* longest line stream of the long-stream specification, and the period of
\* its lines
WindowLen == 52
WindowPeriod == 3
\* what a pipe between the tool and the child holds, in units of the prompt
PipeCap == 1

\* ------------------------------------------------------- program constants
TicksPerSecond == 2
\* output_queue.get(timeout=0.5)
PollTicks == 1
\* process.wait(timeout=5) in cleanup and in the generator
TermWaitS == 5
\* process.wait(timeout=2) after kill (cleanup) / after terminate (generator)
KillWaitS == 2
\* len(last_lines) > 50
LastLinesMax == 50

None == <<>>
Some(v) == <<v>>

\* --------------------------------------------------------------- ErrorKind
TIMEOUT == "timeout"
IDLE_TIMEOUT == "idle_timeout"
COMMAND_NOT_FOUND == "command_not_found"
UPSTREAM_ERROR == "upstream_error"
PROTOCOL_MISSING_SESSION == "protocol_missing_session"
EMPTY_RESULT == "empty_result"
SUBPROCESS_ERROR == "subprocess_error"
UNEXPECTED_EXCEPTION == "unexpected_exception"

\* ------------------------------------------------------------ output lines
\* One stripped line of child output, by what json.loads makes of it:
\*   json = "empty"     the line is "" (json.loads raises JSONDecodeError)
\*   json = "invalid"   not JSON
\*   json = "nonobject" JSON, but not an object (a list, a number, a string)
\*   json = "object"    a JSON object with the keys below (<<>>: key absent)
\* fmt is how the text of the line is laid out: "compact" as the child wrote it
\* (no blank after a separator), "dumps" as json.dumps(data, ensure_ascii=False)
\* writes the same value (", " and ": "). is_list and blocks are
\* message.content: whether it is a list, and its blocks when it is.
Line(j, t, st, sid, res, iserr, err, txt) ==
    [json |-> j, type |-> t, subtype |-> st, session_id |-> sid,
     result |-> res, is_error |-> iserr, error |-> err, text |-> txt,
     fmt |-> "compact", is_list |-> FALSE, blocks |-> <<>>]

\* one block of message.content
Block(t, c) == [type |-> t, content |-> c]

\* a user message whose message.content is the list bs, laid out as f
UserLine(bs, f) ==
    [Line("object", "user", "", None, None, FALSE, None, "")
        EXCEPT !.fmt = f, !.is_list = TRUE, !.blocks = bs]

LEmpty == Line("empty", "", "", None, None, FALSE, None, "")
LGarbage == Line("invalid", "", "", None, None, FALSE, None, "")
LNonObject == Line("nonobject", "", "", None, None, FALSE, None, "")
LInit == Line("object", "system", "init", Some("abc"), None, FALSE, None, "")
LAssistant == Line("object", "assistant", "", None, None, FALSE, None, "hi")
LAssistantMore == Line("object", "assistant", "", None, None, FALSE, None, "there")
LResult == Line("object", "result", "", None, Some("done"), FALSE, None, "")
LResultSid == Line("object", "result", "", Some("xyz"), Some("done"), FALSE, None, "")
LResultStats == Line("object", "result", "", None, None, FALSE, None, "")
LResultErr == Line("object", "result", "", None, Some("boom"), TRUE, None, "")
LError == Line("object", "error", "", None, None, FALSE, Some("bad"), "")
\* user messages: a tool result after a text block; a tool result laid out as
\* json.dumps does; text blocks only; message.content a string
LUserTool == UserLine(<<Block("text", "note"), Block("tool_result", "big")>>, "compact")
LUserToolDumps == UserLine(<<Block("tool_result", "big")>>, "dumps")
LUserText == UserLine(<<Block("text", "note")>>, "compact")
LUserString == Line("object", "user", "", None, None, FALSE, None, "big")

\* the end sentinel the pump puts last (None in the source's queue)
Sentinel == Line("sentinel", "", "", None, None, FALSE, None, "")

\* `if line:` -- a stripped line is truthy unless it is ""
Truthy(line) == line.json # "empty"

\* is_session_completed: json.loads, then data.get("type") in ("result", "error");
\* JSONDecodeError (not JSON, empty) and AttributeError (not an object) give False
\* (is_session_completed_ResultOnly: a variant that takes only a result line
\* for the end of the session)
is_session_completed_ResultOnly(line) ==
    /\ line.json = "object"
    /\ line.type = "result"
is_session_completed(line) ==
    /\ line.json = "object"
    /\ line.type \in {"result", "error"}

\* -------------------------------------------------------- string helpers
EmptyStr == <<"">>
\* prefix + "\n\n" + msg, as lines
Prepend(prefix, msg) == <<prefix, "">> \o msg
\* msg + "\n\n" + suffix, as lines
Append2(msg, suffix) == msg \o <<"", suffix>>
\* err_message.split('\n')[0] if err_message else "unknown"
FirstLine(msg) == IF msg = EmptyStr THEN "unknown error" ELSE msg[1]

\* "\n\n".join(parts) for single-line parts, as lines
RECURSIVE JoinBlank(_)
JoinBlank(parts) ==
    IF Len(parts) = 0 THEN EmptyStr
    ELSE IF Len(parts) = 1 THEN <<parts[1]>>
    ELSE <<parts[1], "">> \o JoinBlank(Tail(parts))

\* the last n elements of a list (lines[-n:])
LastN(s, n) == IF Len(s) <= n THEN s ELSE SubSeq(s, Len(s) - n + 1, Len(s))

\* ------------------------------------------------------------- Run State
\* the per-attempt variables the retry loop resets at the top of each pass
FreshRunState ==
    [result_content |-> EmptyStr, success |-> TRUE, had_error |-> FALSE,
     err_message |-> EmptyStr, session_id |-> None, exit_code |-> None,
     raw_output_lines |-> 0, json_decode_errors |-> 0, error_kind |-> None,
     last_lines |-> <<>>, assistant_text_parts |-> <<>>, all_messages |-> <<>>]

\* last_lines.append(line); if len(last_lines) > 50: last_lines.pop(0)
\* (PushLastLine_NoPop: a variant that never drops the oldest line)
PushLastLine_NoPop(last_lines, line) == Append(last_lines, line)
PushLastLine(last_lines, line) ==
    LET appended == Append(last_lines, line)
    IN IF Len(appended) > LastLinesMax THEN Tail(appended) ELSE appended

\* the body of `for line in gen` for a line that decodes to a JSON object
ProcessObject(r, line) ==
    IF line.type = "system" /\ line.subtype = "init"
    THEN [r EXCEPT !.session_id = line.session_id]
    ELSE IF line.type = "assistant"
    THEN IF line.text # ""
         THEN [r EXCEPT !.assistant_text_parts = Append(@, line.text)]
         ELSE r
    ELSE IF line.type = "result"
    THEN LET r1 == IF line.result # None
                   THEN [r EXCEPT !.result_content = <<line.result[1]>>]
                   ELSE r
             \* `not session_id`: None or ""
             r2 == IF (r1.session_id = None \/ r1.session_id = Some(""))
                      /\ line.session_id # None
                   THEN [r1 EXCEPT !.session_id = line.session_id]
                   ELSE r1
         IN IF line.is_error
            THEN [r2 EXCEPT
                    !.had_error = TRUE,
                    !.err_message =
                        IF line.result # None /\ line.result[1] # ""
                        THEN <<line.result[1]>>
                        ELSE IF line.error # None THEN <<line.error[1]>>
                        ELSE EmptyStr,
                    !.error_kind = Some(UPSTREAM_ERROR)]
            ELSE r2
    ELSE IF line.type = "error"
    THEN [r EXCEPT
            !.had_error = TRUE,
            !.err_message = IF line.error # None THEN <<line.error[1]>>
                            ELSE <<"str(line_dict)">>,
            !.error_kind = Some(UPSTREAM_ERROR)]
    ELSE r

\* block["content"] = "[truncated]" for a tool_result block
\* (RedactBlock_Every: a variant that truncates the content of every block)
RedactBlock_Every(block) == [block EXCEPT !.content = "[truncated]"]
RedactBlock(block) ==
    IF block.type = "tool_result"
    THEN [block EXCEPT !.content = "[truncated]"]
    ELSE block

\* what all_messages.append receives for a decoded line: a deep copy of a user
\* message with the tool_result blocks of a content list truncated, any other
\* message as it is (the invocations explored pass return_all_messages=True)
TraceEntry(line) ==
    IF line.type = "user" /\ line.is_list
    THEN [line EXCEPT
            !.blocks = [i \in 1..Len(line.blocks) |-> RedactBlock(line.blocks[i])]]
    ELSE line

\* whether the tool catches a fault raised while a line is interpreted:
\* coder_tool has `except Exception as error`, claude_tool has not
CatchesUnexpected(tool) == tool = "coder"

\* One pass of the body of `for line in gen`. ctl is what the pass does to the
\* loop: "continue" (next line), "break" (leave the loop), "raise" (the fault
\* leaves the loop and the with block).
ProcessLine(tool, r, line) ==
    LET r0 == [r EXCEPT !.last_lines = PushLastLine(@, line)]
    IN IF line.json \in {"invalid", "empty"}
       THEN [rs |-> [r0 EXCEPT !.json_decode_errors = @ + 1], ctl |-> "continue"]
       ELSE IF line.json = "nonobject"
       THEN \* line_dict.get: AttributeError
            IF CatchesUnexpected(tool)
            THEN [rs |-> [r0 EXCEPT
                            !.err_message = Append2(@, "[unexpected error]"),
                            !.had_error = TRUE,
                            !.error_kind = Some(UNEXPECTED_EXCEPTION)],
                  ctl |-> "break"]
            ELSE [rs |-> r0, ctl |-> "raise"]
       ELSE [rs |-> ProcessObject(
                        [r0 EXCEPT !.all_messages = Append(@, TraceEntry(line))],
                        line),
             ctl |-> "continue"]

\* if not result_content and assistant_text_parts: join the fragments
\* (FallbackResult_Always: a variant that joins the fragments whenever there
\* are any, over the text of a result line)
FallbackResult_Always(r) ==
    IF Len(r.assistant_text_parts) > 0
    THEN [r EXCEPT !.result_content = JoinBlank(r.assistant_text_parts)]
    ELSE r
FallbackResult(r) ==
    IF r.result_content = EmptyStr /\ Len(r.assistant_text_parts) > 0
    THEN [r EXCEPT !.result_content = JoinBlank(r.assistant_text_parts)]
    ELSE r

\* `if not error_kind: error_kind = kind`
\* (KindUnlessSet_Always: a variant that overwrites a kind already set)
KindUnlessSet_Always(r, kind) == Some(kind)
KindUnlessSet(r, kind) == IF r.error_kind = None THEN Some(kind) ELSE r.error_kind

\* if had_error: success = False
ClassifyError(r) == IF r.had_error THEN [r EXCEPT !.success = FALSE] ELSE r

\* if session_id is None: ...
ClassifySession(r) ==
    IF r.session_id = None
    THEN [r EXCEPT !.success = FALSE,
                   !.error_kind = KindUnlessSet(r, PROTOCOL_MISSING_SESSION),
                   !.err_message = Prepend("no SESSION_ID", @)]
    ELSE r

\* if not result_content and success: ...
ClassifyEmpty(r) ==
    IF r.result_content = EmptyStr /\ r.success
    THEN [r EXCEPT !.success = FALSE,
                   !.error_kind = KindUnlessSet(r, EMPTY_RESULT),
                   !.err_message = Prepend("no response content", @)]
    ELSE r

\* if exit_code is not None and exit_code != 0 and success: ...
ClassifyExit(r) ==
    IF r.exit_code # None /\ r.exit_code # Some(0) /\ r.success
    THEN [r EXCEPT !.success = FALSE,
                   !.error_kind = KindUnlessSet(r, SUBPROCESS_ERROR),
                   !.err_message = Prepend("non-zero exit code", @)]
    ELSE r

\* the verdict of an attempt that left the with block without an exception
Classify(r) ==
    ClassifyExit(ClassifyEmpty(ClassifySession(ClassifyError(FallbackResult(r)))))

\* the whole of `for line in gen` over the lines of an attempt, from the
\* attempt's variables r: line by line until a pass leaves the loop
RECURSIVE ConsumeAll(_, _, _)
ConsumeAll(tool, r, lines) ==
    IF lines = <<>> THEN r
    ELSE LET p == ProcessLine(tool, r, Head(lines))
         IN IF p.ctl = "continue"
            THEN ConsumeAll(tool, p.rs, Tail(lines))
            ELSE p.rs

\* what `for line in gen` makes of the generator's return value
\* (exit_code, raw_output_lines): the for statement consumes the generator's
\* StopIteration itself, so the `except StopIteration as e` clause around the
\* loop never runs and the attempt's variables keep their initial values
ForLoopEnd(r, ret) == r

\* last_error = {...} as saved after a failed attempt
SavedError(r) ==
    [error_kind |-> r.error_kind, err_message |-> r.err_message,
     exit_code |-> r.exit_code, json_decode_errors |-> r.json_decode_errors,
     raw_output_lines |-> r.raw_output_lines]

\* the except CommandTimeoutError clause: the verdict of a timed-out attempt
TimeoutMessage(te) ==
    IF te = "idle" THEN <<"idle timeout: no output">>
    ELSE IF te = "duration" THEN <<"timeout: total duration exceeded">>
    ELSE <<"timeout: wait for the process">>

\* (OnTimeout_KindTimeout: a variant that reports every timeout as kind timeout)
OnTimeout_KindTimeout(r, te) ==
    [r EXCEPT !.error_kind = Some(TIMEOUT),
              !.had_error = TRUE,
              !.err_message = TimeoutMessage(te),
              !.success = FALSE]
OnTimeout(r, te) ==
    [r EXCEPT !.error_kind = Some(IF te = "idle" THEN IDLE_TIMEOUT ELSE TIMEOUT),
              !.had_error = TRUE,
              !.err_message = TimeoutMessage(te),
              !.success = FALSE]

\* the classifier as a function of what an attempt captured: its lines, the
\* exit code process.wait returned, and the timeout signal ("none" if none was
\* raised), from the reset at the top of the loop to the verdict
Verdict(tool, lines, exit_code, te) ==
    LET r == ConsumeAll(tool, FreshRunState, lines)
    IN IF te # "none"
       THEN OnTimeout(r, te)
       ELSE Classify(ForLoopEnd(r, [exit_code |-> exit_code,
                                    raw_output_lines |-> Len(lines)]))

\* whether the retry loop goes on after an attempt that ended in a timeout:
\* the except CommandTimeoutError clause ends in `break`
\* (RetryAfterTimeout_Yes: a variant that treats a timeout as any other failure)
RetryAfterTimeout_Yes == TRUE
RetryAfterTimeout == FALSE

\* time.sleep(0.5 * (2 ** (retries - 1))) after retries += 1, in ticks
\* (BackoffTicks_Fixed: a variant that sleeps half a second every time)
BackoffTicks_Fixed(r) == TicksPerSecond \div 2
BackoffTicks(r) == (TicksPerSecond * (2 ^ (r - 1))) \div 2

\* _filter_last_lines, one line: a line that decodes to a user message whose
\* message.content is a list is decoded, its tool_result blocks are redacted, and
\* it is written again by json.dumps(data, ensure_ascii=False); every other line
\* (not JSON, not an object, another type, content not a list) is appended as
\* the string it was
Redact(line) ==
    IF line.json = "object" /\ line.type = "user" /\ line.is_list
    THEN [line EXCEPT
            !.blocks = [i \in 1..Len(line.blocks) |-> RedactBlock(line.blocks[i])],
            !.fmt = "dumps"]
    ELSE line

\* the loop over the lines, then filtered[-max_lines:]
filter_last_lines(lines) ==
    LastN([i \in 1..Len(lines) |-> Redact(lines[i])], LastLinesMax)

\* _build_error_detail; the suggestion is coder.py's only
build_error_detail(tool, message, exit_code, last_lines, jde, idle_s, dur_s, retr) ==
    [message |-> message,
     exit_code |-> exit_code,
     last_lines |-> IF Len(last_lines) > 0 THEN filter_last_lines(last_lines) ELSE <<>>,
     json_decode_errors |-> IF jde > 0 THEN Some(jde) ELSE None,
     idle_timeout_s |-> idle_s,
     max_duration_s |-> dur_s,
     suggestion |-> IF tool # "coder" THEN None
                    ELSE IF dur_s # None THEN Some("raise max_duration")
                    ELSE IF idle_s # None THEN Some("raise timeout")
                    ELSE None,
     retries |-> IF retr > 0 THEN Some(retr) ELSE None]

\* MetricsCollector.finish: the fields the claims read
\* (MetricsFinish_RetriesDropped: a variant that does not record the retries)
MetricsFinish_RetriesDropped(success, error_kind, exit_code, raw_output_lines, jde, retr, t0, t1) ==
    [success |-> success, error_kind |-> error_kind, exit_code |-> exit_code,
     raw_output_lines |-> raw_output_lines, json_decode_errors |-> jde,
     retries |-> 0, duration |-> t1 - t0]
MetricsFinish(success, error_kind, exit_code, raw_output_lines, jde, retr, t0, t1) ==
    [success |-> success, error_kind |-> error_kind, exit_code |-> exit_code,
     raw_output_lines |-> raw_output_lines, json_decode_errors |-> jde,
     retries |-> retr, duration |-> t1 - t0]


\* ------------------------------------------------------------------ inputs
\* exit codes of a child that exits by itself
ExitCodes == {0, 1}
\* returncode of a child ended by terminate() / kill()
SIGTERM_RC == 0 - 15
SIGKILL_RC == 0 - 9

Tools == {"claude", "coder"}

\* what the child may write, by family of runs
FlowLines == {LEmpty, LInit, LResult, LNonObject}
ErrorLines == {LInit, LResultErr, LError, LResultSid}
TextLines == {LInit, LAssistant, LResultStats, LGarbage}
RetryLines == {LInit, LResult}
UserLines == {LUserTool, LUserToolDumps, LUserText, LUserString}
AbandonLines == {LNonObject, LResult}
SlowLines == {LInit}
FragmentLines == {LInit, LAssistant, LAssistantMore, LResult}

\* (idle timeout, max duration) in seconds; 0 = no ceiling
Timings == {<<1, 0>>, <<1, 2>>, <<2, 1>>}

\* slow: whether the body of `for line in gen` may take time (a consumer that
\* is descheduled, or blocked, between two pulls of the line stream)
\* prompt: the length of the prompt, in the units of PipeCap
Config(tool, tm, mr, lines) ==
    [tool |-> tool, timeout |-> tm[1], max_duration |-> tm[2], max_retries |-> mr,
     lines |-> lines, slow |-> FALSE, prompt |-> 1]

SlowConfig(tool, tm, mr, lines) == [Config(tool, tm, mr, lines) EXCEPT !.slow = TRUE]

\* how many lines the children of an invocation write at most, all attempts
\* together: one fewer where the lines are user messages, and one fewer for
\* every retry after the first
LineBudget(lines, mr) ==
    IF lines = UserLines THEN MaxLines - 1
    ELSE IF mr > 1 THEN MaxLines - (mr - 1)
    ELSE MaxLines

\* the invocations explored: every timing with the flow lines; the other line
\* families under one timing, for both tools where a line of the family makes
\* them differ; invocations with retries under one timing with the lines of a
\* session; a coder invocation with one retry whose consumer breaks
\* out of the line stream; an invocation whose consumer may be slow; an
\* invocation whose child writes several assistant texts; an invocation whose
\* prompt does not fit into a pipe
Configs ==
    {Config(t, tm, mr, FlowLines) :
        t \in Tools, tm \in Timings, mr \in (0 - 1)..0}
    \cup
    {Config(t, <<1, 2>>, 0, ErrorLines) : t \in Tools}
    \cup
    {Config("claude", <<1, 2>>, 0, ls) : ls \in {TextLines, UserLines}}
    \cup
    {Config("claude", <<1, 2>>, mr, RetryLines) : mr \in 1..MaxRetries}
    \cup
    {Config("coder", <<1, 2>>, 1, AbandonLines)}
    \cup
    {SlowConfig("claude", <<1, 0>>, 0, SlowLines)}
    \cup
    {Config("claude", <<1, 2>>, 0, FragmentLines)}
    \cup
    {[Config("claude", <<1, 0>>, 0, SlowLines) EXCEPT !.prompt = PipeCap + 1]}

\* how long a wait with a limit of w ticks lasts when the awaited thing happens
\* within the limit: a child that obeys a signal, or is about to exit, does so
\* at once
WaitDurations(w) == {0}

VARIABLES
    cfg,                 \* the parameters of the invocation
    now,                 \* time.time(), in ticks since the invocation started
    \* ---- claude_tool / coder_tool
    tpc,                 \* where the tool function is
    retries, last_error, all_last_lines,
    rs,                  \* the attempt's Run State
    exc,                 \* the exception leaving the with block: none/timeout/attr
    outcome,             \* the returned dict (None until the tool returns)
    metrics,             \* what metrics.finish recorded
    \* ---- safe_*_command: process, pump thread, queue
    proc,                \* the child: state, returncode, signals sent to it
    stdout_closed,       \* process.stdout.closed
    thread,              \* read_output: none / read / grace / dead
    output_queue,
    raw_output_lines_holder,
    budget,              \* lines the child may still write
    \* ---- generator()
    gpc, start_time, last_activity_time, timeout_error,
    poll_left,           \* ticks left of the running output_queue.get(timeout=0.5)
    cur_line, g_exit_code, gen_return,
    \* ---- cleanup()
    cpc, cl_site,
    \* ---- history (not program state): what the invocation has done so far
    hist

toolVars == <<tpc, retries, last_error, all_last_lines, rs, exc, outcome, metrics>>
procVars == <<proc, stdout_closed, thread, output_queue, raw_output_lines_holder, budget>>
genVars == <<gpc, start_time, last_activity_time, timeout_error, poll_left,
             cur_line, g_exit_code, gen_return>>
clVars == <<cpc, cl_site>>
vars == <<cfg, now, toolVars, procVars, genVars, clVars, hist>>

\* stdin_left: what process.stdin.write has still to write; in_pipe: what is
\* in the child's input pipe; out_pipe: what the child has written with nobody
\* reading yet; owed: what the child writes before it reads its input
NoProc ==
    [state |-> "none", returncode |-> None, term |-> FALSE, kill |-> FALSE,
     stdin_left |-> 0, in_pipe |-> 0, out_pipe |-> 0, owed |-> 0]

\* the objects of one attempt before it is launched and after its with
\* statement is left: no process, no thread, no queue, no generator
NoAttempt ==
    /\ proc' = NoProc
    /\ stdout_closed' = FALSE
    /\ thread' = "none"
    /\ output_queue' = <<>>
    /\ raw_output_lines_holder' = 0
    /\ gpc' = "none"
    /\ start_time' = 0
    /\ last_activity_time' = 0
    /\ poll_left' = 0
    /\ cur_line' = None
    /\ g_exit_code' = None
    /\ gen_return' = None
    /\ cpc' = "idle"
    /\ cl_site' = "none"

\* nothing has happened yet
NoHistory ==
    [attempts |-> 0,        \* attempts started
     launched |-> 0,        \* children launched
     sleeps |-> <<>>,       \* the backoff sleeps, in ticks
     cleanups |-> 0,        \* calls of cleanup() in the current attempt
     leaked |-> 0,          \* children left running when their attempt ended
     not_found |-> FALSE,   \* the executable lookup failed
     t_attempt |-> 0,       \* when the current attempt started
     raised |-> "none",     \* the timeout the current attempt raised
     fired |-> [dur |-> FALSE, idle |-> FALSE],
                            \* which ceilings were reached when it was raised
     exit_code |-> None,    \* what process.wait returned to the generator
     teardown |-> 0,        \* ticks spent in teardown, waiting for children
     stall |-> 0,           \* ticks the current cleanup has waited in close()
     waited |-> FALSE,      \* process.wait of the generator found the child running
     put |-> <<>>,          \* the non-empty lines the pump has put, this attempt
     yielded |-> <<>>,      \* the lines the generator has yielded, this attempt
     sentinels |-> 0,       \* end sentinels the pump has put, this attempt
     last_put |-> 0,        \* when the pump last put a line (or the child started)
     maxgap |-> 0,          \* the longest time between two puts so far
     delay |-> 0]           \* ticks the consumer has spent, this attempt

InitWith(c) ==
    /\ cfg = c
    /\ now = 0
    /\ tpc = "while"
    /\ retries = 0
    /\ last_error = None
    /\ all_last_lines = <<>>
    /\ rs = FreshRunState
    /\ exc = "none"
    /\ outcome = None
    /\ metrics = None
    /\ proc = NoProc
    /\ stdout_closed = FALSE
    /\ thread = "none"
    /\ output_queue = <<>>
    /\ raw_output_lines_holder = 0
    /\ budget = LineBudget(c.lines, c.max_retries)
    /\ gpc = "none"
    /\ start_time = 0
    /\ last_activity_time = 0
    /\ timeout_error = "none"
    /\ poll_left = 0
    /\ cur_line = None
    /\ g_exit_code = None
    /\ gen_return = None
    /\ cpc = "idle"
    /\ cl_site = "none"
    /\ hist = NoHistory

Init == \E c \in Configs : InitWith(c)

\* ------------------------------------------------------- the retry loop
\* while retries <= max_retries: reset the attempt's variables
\* (StartAttempt_NoReset: a variant that carries the attempt's variables over
\* from the attempt before)
StartAttempt_NoReset ==
    /\ tpc = "while"
    /\ retries <= cfg.max_retries
    /\ tpc' = "enter"
    /\ rs' = rs
    /\ exc' = "none"
    /\ hist' = [hist EXCEPT !.attempts = @ + 1, !.cleanups = 0, !.t_attempt = now,
                             !.raised = "none",
                             !.fired = [dur |-> FALSE, idle |-> FALSE],
                             !.exit_code = None, !.waited = FALSE,
                             !.put = <<>>, !.yielded = <<>>, !.sentinels = 0,
                             !.last_put = now, !.maxgap = 0, !.delay = 0]
    /\ UNCHANGED <<cfg, now, retries, last_error, all_last_lines, outcome, metrics,
                   procVars, genVars, clVars>>
StartAttempt ==
    /\ tpc = "while"
    /\ retries <= cfg.max_retries
    /\ tpc' = "enter"
    /\ rs' = FreshRunState
    /\ exc' = "none"
    /\ hist' = [hist EXCEPT !.attempts = @ + 1, !.cleanups = 0, !.t_attempt = now,
                             !.raised = "none",
                             !.fired = [dur |-> FALSE, idle |-> FALSE],
                             !.exit_code = None, !.waited = FALSE,
                             !.put = <<>>, !.yielded = <<>>, !.sentinels = 0,
                             !.last_put = now, !.maxgap = 0, !.delay = 0]
    /\ UNCHANGED <<cfg, now, retries, last_error, all_last_lines, outcome, metrics,
                   procVars, genVars, clVars>>

\* the loop body never runs (max_retries < 0): metrics.finish(success=success, ...)
\* reads a variable that was never bound and the tool raises UnboundLocalError
LoopNotEntered ==
    /\ tpc = "while"
    /\ retries > cfg.max_retries
    /\ tpc' = "raised"
    /\ UNCHANGED <<cfg, now, retries, last_error, all_last_lines, rs, exc, outcome,
                   metrics, procVars, genVars, clVars, hist>>

\* the result dict of a failed invocation
FailureOutcome(kind, msg, detail, met) ==
    [success |-> FALSE, error_kind |-> kind, error |-> msg,
     error_detail |-> Some(detail), result |-> EmptyStr, SESSION_ID |-> None,
     all_messages |-> None, metrics |-> met]

\* the except CommandNotFoundError clause: metrics.finish and the result dict
NotFoundOutcome(tool, retr, t1) ==
    LET msg == <<"claude CLI not found">>
        met == MetricsFinish(FALSE, Some(COMMAND_NOT_FOUND), None, 0, 0, retr, 0, t1)
    IN FailureOutcome(
           Some(COMMAND_NOT_FOUND), msg,
           build_error_detail(tool, msg[1], None, <<>>, 0, None, None, 0), met)

\* shutil.which('claude') finds nothing: CommandNotFoundError, which the tool
\* turns into its result at once
\* (WhichFails_Retried: a variant that treats the failed lookup as a failed
\* attempt of the retry loop)
WhichFails_Retried ==
    /\ tpc = "enter"
    /\ hist' = [hist EXCEPT !.not_found = TRUE]
    /\ rs' = [rs EXCEPT !.success = FALSE, !.error_kind = Some(COMMAND_NOT_FOUND)]
    /\ last_error' = Some(SavedError(rs'))
    /\ IF retries < cfg.max_retries
       THEN retries' = retries + 1 /\ tpc' = "sleep"
       ELSE retries' = retries /\ tpc' = "finish"
    /\ UNCHANGED <<cfg, now, all_last_lines, exc, outcome, metrics,
                   procVars, genVars, clVars>>
WhichFails ==
    /\ tpc = "enter"
    /\ outcome' = Some(NotFoundOutcome(cfg.tool, retries, now))
    /\ metrics' = Some(NotFoundOutcome(cfg.tool, retries, now).metrics)
    /\ tpc' = "done"
    /\ hist' = [hist EXCEPT !.not_found = TRUE]
    /\ UNCHANGED <<cfg, now, retries, last_error, all_last_lines, rs, exc,
                   procVars, genVars, clVars>>

\* subprocess.Popen raises (OSError: the working directory does not exist);
\* neither the context manager nor the tool catches it
PopenFails ==
    /\ tpc = "enter"
    /\ tpc' = "raised"
    /\ UNCHANGED <<cfg, now, retries, last_error, all_last_lines, rs, exc, outcome,
                   metrics, procVars, genVars, clVars, hist>>

\* Popen and process.stdin.write(prompt). A prompt that fits into the pipe is
\* written whatever the child does: stdin is closed, the pump thread started,
\* the generator handed to the with block and entered by the for statement. A
\* longer prompt is written as the child makes room for it; the child may have
\* output to write before it reads.
Launch ==
    /\ tpc = "enter"
    /\ IF cfg.prompt <= PipeCap
       THEN /\ tpc' = "body"
            /\ proc' = [NoProc EXCEPT !.state = "running"]
            /\ thread' = "read"
            /\ gpc' = "check"
            /\ start_time' = now
            /\ last_activity_time' = now
       ELSE /\ tpc' = "write"
            /\ \E o \in 0..(PipeCap + 1) :
                 proc' = [NoProc EXCEPT !.state = "running",
                                        !.stdin_left = cfg.prompt, !.owed = o]
            /\ UNCHANGED <<thread, gpc, start_time, last_activity_time>>
    /\ timeout_error' = "none"
    /\ hist' = [hist EXCEPT !.launched = @ + 1]
    /\ UNCHANGED <<cfg, now, retries, last_error, all_last_lines, rs, exc, outcome,
                   metrics, stdout_closed, output_queue, raw_output_lines_holder,
                   budget, poll_left, cur_line, g_exit_code, gen_return, clVars>>

\* process.stdin.write(prompt) goes on: the pipe takes what it has room for
StdinWrite ==
    /\ tpc = "write"
    /\ proc.state = "running"
    /\ proc.stdin_left > 0
    /\ proc.in_pipe < PipeCap
    /\ proc' = [proc EXCEPT !.stdin_left = @ - 1, !.in_pipe = @ + 1]
    /\ UNCHANGED <<cfg, now, toolVars, stdout_closed, thread, output_queue,
                   raw_output_lines_holder, budget, genVars, clVars, hist>>

\* the child while the prompt is written and no thread reads its output: it
\* writes output as long as the pipe takes it, reads its input when it has no
\* output to write first, or exits (a child blocked in a write does not)
ChildBeforePump ==
    /\ tpc = "write"
    /\ proc.state = "running"
    /\ \/ /\ proc.owed > 0
          /\ proc.out_pipe < PipeCap
          /\ proc' = [proc EXCEPT !.owed = @ - 1, !.out_pipe = @ + 1]
       \/ /\ proc.owed = 0
          /\ proc.in_pipe > 0
          /\ proc' = [proc EXCEPT !.in_pipe = @ - 1]
       \/ /\ proc.owed = 0 \/ proc.out_pipe < PipeCap
          /\ \E rc \in ExitCodes :
               proc' = [proc EXCEPT !.state = "exited", !.returncode = Some(rc)]
    /\ UNCHANGED <<cfg, now, toolVars, stdout_closed, thread, output_queue,
                   raw_output_lines_holder, budget, genVars, clVars, hist>>

\* the write returns, or raises BrokenPipeError because the child has exited
\* (tolerated); finally process.stdin.close(), then the pump thread is started
\* and the generator handed to the with block
StdinDone ==
    /\ tpc = "write"
    /\ proc.stdin_left = 0 \/ proc.state = "exited"
    /\ tpc' = "body"
    /\ proc' = [proc EXCEPT !.stdin_left = 0, !.in_pipe = 0, !.out_pipe = 0,
                            !.owed = 0]
    /\ thread' = "read"
    /\ gpc' = "check"
    /\ start_time' = now
    /\ last_activity_time' = now
    /\ UNCHANGED <<cfg, now, retries, last_error, all_last_lines, rs, exc, outcome,
                   metrics, stdout_closed, output_queue, raw_output_lines_holder,
                   budget, timeout_error, poll_left, cur_line, g_exit_code,
                   gen_return, clVars, hist>>

\* ------------------------------------------------------------ the child
\* the child exits by itself
ChildExit ==
    /\ tpc \in {"body", "cleanup"}
    /\ proc.state = "running"
    /\ \E rc \in ExitCodes :
         proc' = [proc EXCEPT !.state = "exited", !.returncode = Some(rc)]
    /\ UNCHANGED <<cfg, now, toolVars, stdout_closed, thread, output_queue,
                   raw_output_lines_holder, budget, genVars, clVars, hist>>

\* ------------------------------------------------- read_output (the pump)
\* the supervisor loop of the generator is still running
Supervising == tpc = "body" /\ gpc \in {"check", "get", "empty", "yielded"}

\* readline returns a line the child wrote: put it (empty or not), count it if
\* non-empty; a completion marker starts the grace sleep, in which the pump
\* reads nothing (PumpRead_InGrace: a variant that goes on reading in it).
\* (Lines written after the supervisor loop has ended are seen by nobody and
\* are left out.)
PumpRead_InGrace ==
    /\ Supervising
    /\ thread \in {"read", "grace"}
    /\ proc.state = "running"
    /\ ~stdout_closed
    /\ budget > 0
    /\ \E line \in cfg.lines :
         /\ output_queue' = Append(output_queue, line)
         /\ raw_output_lines_holder' =
                raw_output_lines_holder + (IF Truthy(line) THEN 1 ELSE 0)
         /\ thread' = IF is_session_completed(line) THEN "grace" ELSE "read"
         /\ hist' = [hist EXCEPT
                        !.put = IF Truthy(line) THEN Append(@, line) ELSE @,
                        !.last_put = now,
                        !.maxgap = IF now - hist.last_put > @
                                   THEN now - hist.last_put ELSE @]
    /\ budget' = budget - 1
    /\ UNCHANGED <<cfg, now, toolVars, proc, stdout_closed, genVars, clVars>>
PumpRead ==
    /\ Supervising
    /\ thread = "read"
    /\ proc.state = "running"
    /\ ~stdout_closed
    /\ budget > 0
    /\ \E line \in cfg.lines :
         /\ output_queue' = Append(output_queue, line)
         /\ raw_output_lines_holder' =
                raw_output_lines_holder + (IF Truthy(line) THEN 1 ELSE 0)
         /\ thread' = IF is_session_completed(line) THEN "grace" ELSE "read"
         /\ hist' = [hist EXCEPT
                        !.put = IF Truthy(line) THEN Append(@, line) ELSE @,
                        !.last_put = now,
                        !.maxgap = IF now - hist.last_put > @
                                   THEN now - hist.last_put ELSE @]
    /\ budget' = budget - 1
    /\ UNCHANGED <<cfg, now, toolVars, proc, stdout_closed, genVars, clVars>>

\* the pump may stop: the grace sleep is over, the stream is at its end (the
\* child exited), or the stream was closed under it (the read raises)
PumpMayStop ==
    \/ thread = "grace"
    \/ thread = "read" /\ proc.state = "exited"
    \/ thread = "read" /\ stdout_closed

\* the pump stops: process.stdout.close() unless the read raised, and in the
\* finally clause the sentinel
\* (PumpStop_NoFinally: a variant without the finally clause: a pump whose read
\* raised, because the stream was closed under it, puts no sentinel)
PumpStop_NoFinally ==
    /\ PumpMayStop
    /\ stdout_closed' = TRUE
    /\ output_queue' = IF thread = "read" /\ stdout_closed
                       THEN output_queue
                       ELSE Append(output_queue, Sentinel)
    /\ thread' = "dead"
    /\ hist' = [hist EXCEPT !.sentinels =
                    @ + (IF thread = "read" /\ stdout_closed THEN 0 ELSE 1)]
    /\ UNCHANGED <<cfg, now, toolVars, proc, raw_output_lines_holder, budget,
                   genVars, clVars>>
PumpStop ==
    /\ PumpMayStop
    /\ stdout_closed' = TRUE
    /\ output_queue' = Append(output_queue, Sentinel)
    /\ thread' = "dead"
    /\ hist' = [hist EXCEPT !.sentinels = @ + 1]
    /\ UNCHANGED <<cfg, now, toolVars, proc, raw_output_lines_holder, budget,
                   genVars, clVars>>

\* ------------------------------------------------------------ generator()
DurationReached ==
    cfg.max_duration > 0 /\ (now - start_time) >= cfg.max_duration * TicksPerSecond

IdleReached == (now - last_activity_time) >= cfg.timeout * TicksPerSecond

\* which timeout the top of the supervisor loop raises: the duration ceiling is
\* tested first
\* (TimeoutCheck_IdleFirst: a variant that tests the idle window first)
TimeoutCheck_IdleFirst ==
    IF IdleReached THEN "idle"
    ELSE IF DurationReached THEN "duration"
    ELSE "none"
TimeoutCheck ==
    IF DurationReached THEN "duration"
    ELSE IF IdleReached THEN "idle"
    ELSE "none"

\* the top of `while True`: now = time.time() and the two timeout tests; with
\* no timeout, output_queue.get(timeout=0.5) starts
GenCheck ==
    /\ tpc = "body"
    /\ gpc = "check"
    /\ timeout_error' = TimeoutCheck
    /\ IF TimeoutCheck # "none"
       THEN /\ gpc' = "timedout"
            /\ hist' = [hist EXCEPT !.raised = TimeoutCheck,
                                     !.fired = [dur |-> DurationReached,
                                                idle |-> IdleReached]]
            /\ UNCHANGED poll_left
       ELSE gpc' = "get" /\ poll_left' = PollTicks /\ UNCHANGED hist
    /\ UNCHANGED <<cfg, now, toolVars, procVars, start_time, last_activity_time,
                   cur_line, g_exit_code, gen_return, clVars>>

\* output_queue.get returns an item: the sentinel ends the loop; a line resets
\* the idle clock and is yielded unless it is empty
\* (GenGetLine_NonEmptyOnly: a variant in which only a non-empty line resets the
\* idle clock)
GenGetLine_NonEmptyOnly ==
    /\ tpc = "body"
    /\ gpc = "get"
    /\ output_queue # <<>>
    /\ output_queue' = Tail(output_queue)
    /\ poll_left' = 0
    /\ LET line == Head(output_queue)
       IN IF line = Sentinel
          THEN gpc' = "wait" /\ UNCHANGED <<last_activity_time, cur_line, hist>>
          ELSE /\ last_activity_time' = IF Truthy(line) THEN now
                                         ELSE last_activity_time
               /\ IF Truthy(line)
                  THEN /\ gpc' = "yielded"
                       /\ cur_line' = Some(line)
                       /\ hist' = [hist EXCEPT !.yielded = Append(@, line)]
                  ELSE gpc' = "check" /\ UNCHANGED <<cur_line, hist>>
    /\ UNCHANGED <<cfg, now, toolVars, proc, stdout_closed, thread,
                   raw_output_lines_holder, budget, start_time, timeout_error,
                   g_exit_code, gen_return, clVars>>
GenGetLine ==
    /\ tpc = "body"
    /\ gpc = "get"
    /\ output_queue # <<>>
    /\ output_queue' = Tail(output_queue)
    /\ poll_left' = 0
    /\ LET line == Head(output_queue)
       IN IF line = Sentinel
          THEN gpc' = "wait" /\ UNCHANGED <<last_activity_time, cur_line, hist>>
          ELSE /\ last_activity_time' = now
               /\ IF Truthy(line)
                  THEN /\ gpc' = "yielded"
                       /\ cur_line' = Some(line)
                       /\ hist' = [hist EXCEPT !.yielded = Append(@, line)]
                  ELSE gpc' = "check" /\ UNCHANGED <<cur_line, hist>>
    /\ UNCHANGED <<cfg, now, toolVars, proc, stdout_closed, thread,
                   raw_output_lines_holder, budget, start_time, timeout_error,
                   g_exit_code, gen_return, clVars>>

\* output_queue.get(timeout=0.5) raises queue.Empty
GenPollEmpty ==
    /\ tpc = "body"
    /\ gpc = "get"
    /\ output_queue = <<>>
    /\ poll_left = 0
    /\ gpc' = "empty"
    /\ UNCHANGED <<cfg, now, toolVars, procVars, start_time, last_activity_time,
                   timeout_error, poll_left, cur_line, g_exit_code, gen_return,
                   clVars, hist>>

\* except queue.Empty: if process.poll() is not None and not thread.is_alive(): break
\* (GenAfterEmpty_PollOnly: a variant that leaves the loop when the process has
\* exited, whatever the pump thread does)
GenAfterEmpty_PollOnly ==
    /\ tpc = "body"
    /\ gpc = "empty"
    /\ gpc' = IF proc.state = "exited" THEN "wait" ELSE "check"
    /\ UNCHANGED <<cfg, now, toolVars, procVars, start_time, last_activity_time,
                   timeout_error, poll_left, cur_line, g_exit_code, gen_return,
                   clVars, hist>>
GenAfterEmpty ==
    /\ tpc = "body"
    /\ gpc = "empty"
    /\ gpc' = IF proc.state = "exited" /\ thread = "dead" THEN "wait" ELSE "check"
    /\ UNCHANGED <<cfg, now, toolVars, procVars, start_time, last_activity_time,
                   timeout_error, poll_left, cur_line, g_exit_code, gen_return,
                   clVars, hist>>

\* a call of cleanup() from `site`: the generator's timeout branch ("gen"), the
\* context manager's except clause ("except") or its finally clause ("finally")
CallCleanup(site) ==
    /\ tpc' = "cleanup"
    /\ cl_site' = site
    /\ cpc' = "close"
    /\ hist' = [hist EXCEPT !.cleanups = @ + 1]

\* if timeout_error is not None: cleanup(); raise timeout_error -- the call;
\* CleanupJoin raises the timeout when cleanup is done
GenTimedOut ==
    /\ tpc = "body"
    /\ gpc = "timedout"
    /\ CallCleanup("gen")
    /\ UNCHANGED <<cfg, now, retries, last_error, all_last_lines, rs, exc, outcome,
                   metrics, procVars, genVars>>

\* exit_code = process.wait(timeout=5) returns: the child had exited, or exits
\* within the limit; then thread.join and on to the drain loop
GenWaitExit ==
    /\ tpc = "body"
    /\ gpc = "wait"
    /\ \/ /\ proc.state = "exited"
          /\ g_exit_code' = proc.returncode
          /\ UNCHANGED <<now, proc>>
       \/ /\ proc.state = "running"
          /\ \E d \in WaitDurations(TermWaitS * TicksPerSecond), rc \in ExitCodes :
               /\ now' = now + d
               /\ proc' = [proc EXCEPT !.state = "exited", !.returncode = Some(rc)]
               /\ g_exit_code' = Some(rc)
    /\ gpc' = "drain"
    /\ hist' = [hist EXCEPT !.exit_code = g_exit_code', !.teardown = @ + (now' - now),
                             !.waited = (proc.state = "running")]
    /\ UNCHANGED <<cfg, toolVars, stdout_closed, thread, output_queue,
                   raw_output_lines_holder, budget, start_time, last_activity_time,
                   timeout_error, poll_left, cur_line, gen_return, clVars>>

\* process.wait(timeout=5) raises TimeoutExpired: terminate, wait(timeout=2),
\* then kill and an unbounded wait; the generator raises the wait timeout, which
\* leaves the for loop and the with block (the context manager's except clause
\* calls cleanup). A child that survives kill blocks the generator for good.
GenWaitExpired ==
    /\ tpc = "body"
    /\ gpc = "wait"
    /\ proc.state = "running"
    /\ \/ \E d \in WaitDurations(KillWaitS * TicksPerSecond) :
            /\ now' = now + TermWaitS * TicksPerSecond + d
            /\ proc' = [proc EXCEPT !.state = "exited",
                                    !.returncode = Some(SIGTERM_RC), !.term = TRUE]
            /\ gpc' = "raised"
       \/ /\ now' = now + (TermWaitS + KillWaitS) * TicksPerSecond
          /\ proc' = [proc EXCEPT !.state = "exited",
                                  !.returncode = Some(SIGKILL_RC),
                                  !.term = TRUE, !.kill = TRUE]
          /\ gpc' = "raised"
       \/ /\ now' = now + (TermWaitS + KillWaitS) * TicksPerSecond
          /\ proc' = [proc EXCEPT !.term = TRUE, !.kill = TRUE]
          /\ gpc' = "blocked"
    /\ IF gpc' = "raised"
       THEN /\ timeout_error' = "wait"
            /\ exc' = "timeout"
            /\ tpc' = "cleanup"
            /\ cl_site' = "except"
            /\ cpc' = "close"
            /\ hist' = [hist EXCEPT !.cleanups = @ + 1, !.raised = "wait",
                                     !.teardown = @ + (now' - now), !.waited = TRUE]
       ELSE /\ hist' = [hist EXCEPT !.teardown = @ + (now' - now), !.waited = TRUE]
            /\ UNCHANGED <<timeout_error, exc, tpc, cl_site, cpc>>
    /\ UNCHANGED <<cfg, retries, last_error, all_last_lines, rs, outcome, metrics,
                   stdout_closed, thread, output_queue, raw_output_lines_holder,
                   budget, start_time, last_activity_time, poll_left, cur_line,
                   g_exit_code, gen_return>>

\* while not output_queue.empty(): get_nowait; every item but the sentinel is
\* yielded (an empty line too); then return (exit_code, raw_output_lines_holder[0])
GenDrain ==
    /\ tpc = "body"
    /\ gpc = "drain"
    /\ IF output_queue # <<>>
       THEN /\ output_queue' = Tail(output_queue)
            /\ IF Head(output_queue) # Sentinel
               THEN /\ gpc' = "yielded_drain"
                    /\ cur_line' = Some(Head(output_queue))
                    /\ hist' = [hist EXCEPT !.yielded = Append(@, Head(output_queue))]
               ELSE UNCHANGED <<gpc, cur_line, hist>>
            /\ UNCHANGED gen_return
       ELSE /\ gpc' = "returned"
            /\ gen_return' = Some([exit_code |-> g_exit_code,
                                   raw_output_lines |-> raw_output_lines_holder])
            /\ UNCHANGED <<output_queue, cur_line, hist>>
    /\ UNCHANGED <<cfg, now, toolVars, proc, stdout_closed, thread,
                   raw_output_lines_holder, budget, start_time, last_activity_time,
                   timeout_error, poll_left, g_exit_code, clVars>>

\* ---------------------------------------------- the body of `for line in gen`
\* the consumer interprets the yielded line; then the loop asks the generator
\* for the next one, or is left by break (the with block ends normally: the
\* context manager's finally clause) or by a fault (its except clause)
Consume ==
    /\ tpc = "body"
    /\ gpc \in {"yielded", "yielded_drain"}
    /\ LET p == ProcessLine(cfg.tool, rs, cur_line[1])
       IN /\ rs' = p.rs
          /\ IF p.ctl = "continue"
             THEN /\ gpc' = IF gpc = "yielded" THEN "check" ELSE "drain"
                  /\ UNCHANGED <<tpc, exc, clVars, hist>>
             ELSE /\ gpc' = "abandoned"
                  /\ exc' = IF p.ctl = "raise" THEN "attr" ELSE "none"
                  /\ CallCleanup(IF p.ctl = "raise" THEN "except" ELSE "finally")
    /\ cur_line' = None
    /\ UNCHANGED <<cfg, now, retries, last_error, all_last_lines, outcome, metrics,
                   procVars, start_time, last_activity_time, timeout_error,
                   poll_left, g_exit_code, gen_return>>

\* time passes while the consumer holds a line the supervisor loop has yielded:
\* the generator is suspended at its yield and tests no timeout
ConsumerDelay ==
    /\ tpc = "body"
    /\ gpc = "yielded"
    /\ cfg.slow
    /\ hist.delay < MaxDelay
    /\ now' = now + 1
    /\ hist' = [hist EXCEPT !.delay = @ + 1]
    /\ UNCHANGED <<cfg, toolVars, procVars, genVars, clVars>>

\* the generator returned: the for loop ends and the with block is left normally
ForEnd ==
    /\ tpc = "body"
    /\ gpc = "returned"
    /\ rs' = ForLoopEnd(rs, gen_return[1])
    /\ gpc' = "finished"
    /\ CallCleanup("finally")
    /\ UNCHANGED <<cfg, now, retries, last_error, all_last_lines, exc, outcome,
                   metrics, procVars, start_time, last_activity_time, timeout_error,
                   poll_left, cur_line, g_exit_code, gen_return>>

\* ------------------------------------------------------------- cleanup()
\* `if process.stdout and not process.stdout.closed: process.stdout.close()`
\* does not return while the pump thread is inside process.stdout.readline():
\* the buffered reader's lock is held by the read until the child writes a line
\* or ends its output. (A child that writes while cleanup waits releases the
\* close as one that exits does; the model lets the child exit.)
CloseBlocked == ~stdout_closed /\ thread = "read" /\ proc.state = "running"

\* a tick passes while cleanup waits in process.stdout.close()
Stall ==
    /\ tpc = "cleanup"
    /\ cpc = "close"
    /\ CloseBlocked
    /\ hist.stall < MaxStall
    /\ now' = now + 1
    /\ hist' = [hist EXCEPT !.stall = @ + 1, !.teardown = @ + 1]
    /\ UNCHANGED <<cfg, toolVars, procVars, genVars, clVars>>

\* The first step of cleanup: process.stdout.close() if the stream is open
\* (CleanupClose_Skip: a variant that goes on to the signals with the stream
\* left as it is)
CleanupClose_Skip ==
    /\ tpc = "cleanup"
    /\ cpc = "close"
    /\ cpc' = "signal"
    /\ hist' = [hist EXCEPT !.stall = 0]
    /\ UNCHANGED <<cfg, now, toolVars, procVars, genVars, cl_site>>
CleanupClose ==
    /\ tpc = "cleanup"
    /\ cpc = "close"
    /\ ~CloseBlocked
    /\ stdout_closed' = TRUE
    /\ cpc' = "signal"
    /\ hist' = [hist EXCEPT !.stall = 0]
    /\ UNCHANGED <<cfg, now, toolVars, proc, thread, output_queue,
                   raw_output_lines_holder, budget, genVars, cl_site>>

\* The second step of cleanup: if process.poll() is None: terminate,
\* wait(timeout=5); on TimeoutExpired kill, wait(timeout=2); on a second
\* TimeoutExpired give up.
\* (CleanupSignal_Always: a variant that waits the graceful limit whether or
\* not the child has exited)
CleanupSignal_Always ==
    /\ tpc = "cleanup"
    /\ cpc = "signal"
    /\ \/ /\ proc.state # "running"
          /\ now' = now + TermWaitS * TicksPerSecond
          /\ UNCHANGED proc
       \/ /\ proc.state = "running"
          /\ \E d \in WaitDurations(TermWaitS * TicksPerSecond) :
               /\ now' = now + d
               /\ proc' = [proc EXCEPT !.state = "exited",
                                       !.returncode = Some(SIGTERM_RC), !.term = TRUE]
       \/ /\ proc.state = "running"
          /\ \E d \in WaitDurations(KillWaitS * TicksPerSecond) :
               /\ now' = now + TermWaitS * TicksPerSecond + d
               /\ proc' = [proc EXCEPT !.state = "exited",
                                       !.returncode = Some(SIGKILL_RC),
                                       !.term = TRUE, !.kill = TRUE]
       \/ /\ proc.state = "running"
          /\ now' = now + (TermWaitS + KillWaitS) * TicksPerSecond
          /\ proc' = [proc EXCEPT !.term = TRUE, !.kill = TRUE]
    /\ cpc' = "join"
    /\ hist' = [hist EXCEPT !.teardown = @ + (now' - now)]
    /\ UNCHANGED <<cfg, toolVars, stdout_closed, thread, output_queue,
                   raw_output_lines_holder, budget, genVars, cl_site>>
CleanupSignal ==
    /\ tpc = "cleanup"
    /\ cpc = "signal"
    /\ \/ /\ proc.state # "running"
          /\ UNCHANGED <<now, proc>>
       \/ /\ proc.state = "running"
          /\ \E d \in WaitDurations(TermWaitS * TicksPerSecond) :
               /\ now' = now + d
               /\ proc' = [proc EXCEPT !.state = "exited",
                                       !.returncode = Some(SIGTERM_RC), !.term = TRUE]
       \/ /\ proc.state = "running"
          /\ \E d \in WaitDurations(KillWaitS * TicksPerSecond) :
               /\ now' = now + TermWaitS * TicksPerSecond + d
               /\ proc' = [proc EXCEPT !.state = "exited",
                                       !.returncode = Some(SIGKILL_RC),
                                       !.term = TRUE, !.kill = TRUE]
       \/ /\ proc.state = "running"
          /\ now' = now + (TermWaitS + KillWaitS) * TicksPerSecond
          /\ proc' = [proc EXCEPT !.term = TRUE, !.kill = TRUE]
    /\ cpc' = "join"
    /\ hist' = [hist EXCEPT !.teardown = @ + (now' - now)]
    /\ UNCHANGED <<cfg, toolVars, stdout_closed, thread, output_queue,
                   raw_output_lines_holder, budget, genVars, cl_site>>

\* the last step of cleanup: if thread.is_alive(): thread.join(timeout=5) -- the
\* pump, whose stream is closed by now, has stopped
Joined == tpc = "cleanup" /\ cpc = "join" /\ thread = "dead"

\* cleanup() called by the generator returns and `raise timeout_error` leaves
\* the for loop and the with block: the context manager's except clause calls
\* cleanup again
\* (CleanupThenRaise_PastExcept: a variant in which the timeout passes the
\* except clause without a call of cleanup)
CleanupThenRaise_PastExcept ==
    /\ Joined
    /\ cl_site = "gen"
    /\ exc' = "timeout"
    /\ gpc' = "raised"
    /\ CallCleanup("finally")
    /\ UNCHANGED <<cfg, now, retries, last_error, all_last_lines, rs, outcome,
                   metrics, procVars, start_time, last_activity_time, timeout_error,
                   poll_left, cur_line, g_exit_code, gen_return>>
CleanupThenRaise ==
    /\ Joined
    /\ cl_site = "gen"
    /\ exc' = "timeout"
    /\ gpc' = "raised"
    /\ CallCleanup("except")
    /\ UNCHANGED <<cfg, now, retries, last_error, all_last_lines, rs, outcome,
                   metrics, procVars, start_time, last_activity_time, timeout_error,
                   poll_left, cur_line, g_exit_code, gen_return>>

\* except Exception: cleanup(); raise -- on to the finally clause, which calls
\* cleanup once more
CleanupThenReraise ==
    /\ Joined
    /\ cl_site = "except"
    /\ CallCleanup("finally")
    /\ UNCHANGED <<cfg, now, retries, last_error, all_last_lines, rs, exc, outcome,
                   metrics, procVars, genVars>>

\* finally: cleanup() -- the with statement is over and the attempt's process
\* handle, thread, queue and generator are dropped. Control is after the with
\* block, in the except CommandTimeoutError clause, or (a fault that no clause
\* of the tool catches) out of the tool.
LeaveWith ==
    /\ Joined
    /\ cl_site = "finally"
    /\ tpc' = IF exc = "none" THEN "classify"
              ELSE IF exc = "timeout" THEN "timeout"
              ELSE "raised"
    /\ hist' = [hist EXCEPT !.leaked = @ + (IF proc.state = "running" THEN 1 ELSE 0),
                             !.put = <<>>, !.sentinels = 0,
                             !.last_put = 0, !.maxgap = 0, !.delay = 0]
    /\ NoAttempt
    /\ UNCHANGED <<cfg, now, retries, last_error, all_last_lines, rs, exc, outcome,
                   metrics, budget, timeout_error>>

\* ------------------------------------------- verdict and the retry decision
\* all_last_lines = last_lines.copy() after a failed attempt
\* (TrailingLines_Accumulated: a variant that adds the attempt's lines to those
\* saved before)
TrailingLines_Accumulated(r) == all_last_lines \o r.last_lines
TrailingLines(r) == r.last_lines

\* after a failed attempt: `if retries < max_retries` retry after the backoff
\* sleep, else leave the loop
AfterFailure(may_retry) ==
    IF may_retry /\ retries < cfg.max_retries
    THEN retries' = retries + 1 /\ tpc' = "sleep"
    ELSE retries' = retries /\ tpc' = "finish"

\* the attempt left the with block without an exception: the fallback result
\* text, the success tests, and `if success: break / else: ...`
\* (ClassifyAttempt_RetryAlways: a variant that goes on to the retry decision
\* after a successful attempt too)
ClassifyAttempt_RetryAlways ==
    /\ tpc = "classify"
    /\ LET r == Classify(rs)
       IN /\ rs' = r
          /\ all_last_lines' = TrailingLines(r)
          /\ last_error' = IF r.success THEN last_error ELSE Some(SavedError(r))
          /\ AfterFailure(TRUE)
    /\ UNCHANGED <<cfg, now, exc, outcome, metrics, procVars, genVars, clVars, hist>>
ClassifyAttempt ==
    /\ tpc = "classify"
    /\ LET r == Classify(rs)
       IN /\ rs' = r
          /\ IF r.success
             THEN /\ tpc' = "finish"
                  /\ UNCHANGED <<retries, last_error, all_last_lines>>
             ELSE /\ all_last_lines' = TrailingLines(r)
                  /\ last_error' = Some(SavedError(r))
                  /\ AfterFailure(TRUE)
    /\ UNCHANGED <<cfg, now, exc, outcome, metrics, procVars, genVars, clVars, hist>>

\* except CommandTimeoutError: the kind by e.is_idle, the error saved, break
HandleTimeout ==
    /\ tpc = "timeout"
    /\ LET r == OnTimeout(rs, timeout_error)
       IN /\ rs' = r
          /\ all_last_lines' = TrailingLines(r)
          /\ last_error' = Some(SavedError(r))
    /\ AfterFailure(RetryAfterTimeout)
    /\ timeout_error' = "none"
    /\ UNCHANGED <<cfg, now, exc, outcome, metrics, procVars, gpc, start_time,
                   last_activity_time, poll_left, cur_line, g_exit_code, gen_return,
                   clVars, hist>>

\* time.sleep(0.5 * (2 ** (retries - 1)))
Sleep ==
    /\ tpc = "sleep"
    /\ now' = now + BackoffTicks(retries)
    /\ hist' = [hist EXCEPT !.sleeps = Append(@, BackoffTicks(retries))]
    /\ tpc' = "while"
    /\ UNCHANGED <<cfg, retries, last_error, all_last_lines, rs, exc, outcome,
                   metrics, procVars, genVars, clVars>>

\* the result dict of a successful invocation
\* (SuccessOutcome_NoSession: a variant that leaves the session id out)
SuccessOutcome_NoSession(r, met) ==
    [success |-> TRUE, error_kind |-> None, error |-> EmptyStr,
     error_detail |-> None, result |-> r.result_content,
     SESSION_ID |-> None, all_messages |-> None, metrics |-> met]
SuccessOutcome(r, met) ==
    [success |-> TRUE, error_kind |-> None, error |-> EmptyStr,
     error_detail |-> None, result |-> r.result_content,
     SESSION_ID |-> r.session_id, all_messages |-> None, metrics |-> met]

\* the failure dict built after the loop from last_error and all_last_lines
\* (FinalFailure_BothThresholds: a variant that passes both thresholds whatever
\* the kind)
FinalFailure_BothThresholds(tool, le, lines, retr, timeout_s, duration_s, met) ==
    FailureOutcome(
        le.error_kind, le.err_message,
        build_error_detail(
            tool, FirstLine(le.err_message), le.exit_code, lines,
            le.json_decode_errors, Some(timeout_s), Some(duration_s), retr),
        met)
FinalFailure(tool, le, lines, retr, timeout_s, duration_s, met) ==
    FailureOutcome(
        le.error_kind, le.err_message,
        build_error_detail(
            tool, FirstLine(le.err_message), le.exit_code, lines,
            le.json_decode_errors,
            IF le.error_kind = Some(IDLE_TIMEOUT) THEN Some(timeout_s) ELSE None,
            IF le.error_kind = Some(TIMEOUT) THEN Some(duration_s) ELSE None,
            retr),
        met)

\* after the loop: metrics.finish(...), the result dict, and
\* result["all_messages"] = all_messages
Finish ==
    /\ tpc = "finish"
    /\ LET met == MetricsFinish(rs.success, rs.error_kind, rs.exit_code,
                                rs.raw_output_lines, rs.json_decode_errors,
                                retries, 0, now)
           le == IF last_error # None THEN last_error[1] ELSE SavedError(rs)
       IN /\ metrics' = Some(met)
          /\ outcome' = Some([(IF rs.success
                               THEN SuccessOutcome(rs, met)
                               ELSE FinalFailure(cfg.tool, le, all_last_lines, retries,
                                                 cfg.timeout, cfg.max_duration, met))
                              EXCEPT !.all_messages = Some(rs.all_messages)])
    /\ tpc' = "done"
    /\ UNCHANGED <<cfg, now, retries, last_error, all_last_lines, rs, exc,
                   procVars, genVars, clVars, hist>>

\* -------------------------------------------------------------------- time
\* A tick passes while the supervisor loop waits in output_queue.get, for at
\* most the poll interval. (The steps of the program itself take no time.)
Tick ==
    /\ tpc = "body"
    /\ gpc = "get"
    /\ output_queue = <<>>
    /\ poll_left > 0
    /\ now' = now + 1
    /\ poll_left' = poll_left - 1
    /\ UNCHANGED <<cfg, toolVars, procVars, gpc, start_time, last_activity_time,
                   timeout_error, cur_line, g_exit_code, gen_return, clVars, hist>>

Next ==
    \/ StartAttempt
    \/ LoopNotEntered
    \/ WhichFails
    \/ PopenFails
    \/ Launch
    \/ StdinWrite
    \/ ChildBeforePump
    \/ StdinDone
    \/ ChildExit
    \/ PumpRead
    \/ PumpStop
    \/ GenCheck
    \/ GenGetLine
    \/ GenPollEmpty
    \/ GenAfterEmpty
    \/ GenTimedOut
    \/ GenWaitExit
    \/ GenWaitExpired
    \/ GenDrain
    \/ Consume
    \/ ConsumerDelay
    \/ ForEnd
    \/ Stall
    \/ CleanupClose
    \/ CleanupSignal
    \/ CleanupThenRaise
    \/ CleanupThenReraise
    \/ LeaveWith
    \/ ClassifyAttempt
    \/ HandleTimeout
    \/ Sleep
    \/ Finish
    \/ Tick

Spec == Init /\ [][Next]_vars

\* ---------------------------------------------------- a long line stream
\* The consumer's loop over a stream longer than the trailing window, without
\* the timing of pump and supervisor: the generator yields a line (WindowYield),
\* the body of the for loop interprets it (Consume), and a timeout may end the
\* attempt (WindowTimeout, then the tool's handler and its result dict). The
\* streams are those of at most WindowLen lines in which every line after the
\* first WindowPeriod repeats the line WindowPeriod places before it.
WindowInit ==
    /\ cfg = Config("claude", <<1, 0>>, 0, {LInit, LAssistant, LGarbage})
    /\ now = 0
    /\ tpc = "body"
    /\ retries = 0
    /\ last_error = None
    /\ all_last_lines = <<>>
    /\ rs = FreshRunState
    /\ exc = "none"
    /\ outcome = None
    /\ metrics = None
    /\ proc = [NoProc EXCEPT !.state = "running"]
    /\ stdout_closed = FALSE
    /\ thread = "read"
    /\ output_queue = <<>>
    /\ raw_output_lines_holder = 0
    /\ budget = 0
    /\ gpc = "check"
    /\ start_time = 0
    /\ last_activity_time = 0
    /\ timeout_error = "none"
    /\ poll_left = 0
    /\ cur_line = None
    /\ g_exit_code = None
    /\ gen_return = None
    /\ cpc = "idle"
    /\ cl_site = "none"
    /\ hist = [NoHistory EXCEPT !.attempts = 1]

\* the generator yields the next line of the stream
WindowYield ==
    /\ tpc = "body"
    /\ gpc = "check"
    /\ Len(hist.yielded) < WindowLen
    /\ \E line \in cfg.lines :
         /\ Len(hist.yielded) >= WindowPeriod =>
               line = hist.yielded[Len(hist.yielded) - WindowPeriod + 1]
         /\ cur_line' = Some(line)
         /\ hist' = [hist EXCEPT !.yielded = Append(@, line)]
    /\ gpc' = "yielded"
    /\ UNCHANGED <<cfg, now, toolVars, procVars, start_time, last_activity_time,
                   timeout_error, poll_left, g_exit_code, gen_return, clVars>>

\* the generator raises the idle timeout and the with block is left: control
\* is in the except CommandTimeoutError clause
WindowTimeout ==
    /\ tpc = "body"
    /\ gpc = "check"
    /\ tpc' = "timeout"
    /\ exc' = "timeout"
    /\ timeout_error' = "idle"
    /\ gpc' = "none"
    /\ hist' = [hist EXCEPT !.raised = "idle"]
    /\ UNCHANGED <<cfg, now, retries, last_error, all_last_lines, rs, outcome,
                   metrics, procVars, start_time, last_activity_time, poll_left,
                   cur_line, g_exit_code, gen_return, clVars>>

WindowNext ==
    \/ WindowYield
    \/ Consume
    \/ WindowTimeout
    \/ HandleTimeout
    \/ Finish

WindowSpec == WindowInit /\ [][WindowNext]_vars

\* ------------------------------------------------- the program with progress
\* The steps of the caller's thread: the tool function, the generator it pulls,
\* cleanup, and the time that passes in their bounded waits. The pump is a
\* thread of its own. Both run whenever they can; the child owes nothing (it
\* need not write, and need not exit).
CallerStep ==
    \/ StartAttempt
    \/ LoopNotEntered
    \/ WhichFails
    \/ PopenFails
    \/ Launch
    \/ StdinWrite
    \/ StdinDone
    \/ GenCheck
    \/ GenGetLine
    \/ GenPollEmpty
    \/ GenAfterEmpty
    \/ GenTimedOut
    \/ GenWaitExit
    \/ GenWaitExpired
    \/ GenDrain
    \/ Consume
    \/ ConsumerDelay
    \/ ForEnd
    \/ Stall
    \/ CleanupClose
    \/ CleanupSignal
    \/ CleanupThenRaise
    \/ CleanupThenReraise
    \/ LeaveWith
    \/ ClassifyAttempt
    \/ HandleTimeout
    \/ Sleep
    \/ Finish
    \/ Tick

\* the invocations explored with progress: one with a retry over the lines of a
\* session, one whose loop is never entered, one with a slow consumer
LiveConfigs ==
    {Config("coder", <<1, 2>>, 1, RetryLines),
     Config("claude", <<1, 0>>, 0 - 1, FlowLines),
     SlowConfig("claude", <<1, 0>>, 0, SlowLines),
     [Config("claude", <<1, 0>>, 0, SlowLines) EXCEPT !.prompt = PipeCap + 1]}

LiveInit == \E c \in LiveConfigs : InitWith(c)

LiveSpec ==
    /\ LiveInit
    /\ [][Next]_vars
    /\ WF_vars(CallerStep)
    /\ WF_vars(PumpStop)

\* ------------------------------------------------ what the properties read
\* the invocation returned its result dict
Returned == tpc = "done"
\* the exception left the tool function
Raised == tpc = "raised"
\* the returned dict and its error_detail
Out == outcome[1]
Detail == outcome[1].error_detail[1]

\* the line sets session_id: a system/init line carrying one, or a result line
\* carrying one
HasSessionId(line) ==
    /\ line.json = "object"
    /\ \/ line.type = "system" /\ line.subtype = "init"
       \/ line.type = "result"
    /\ line.session_id # None
    /\ line.session_id # Some("")

\* the line marks an upstream error: a result line flagged is_error, or an
\* error line
UpstreamLine(line) ==
    /\ line.json = "object"
    /\ \/ line.type = "result" /\ line.is_error
       \/ line.type = "error"

\* a result line with non-empty result text and no is_error flag
PlainResult(line) ==
    /\ line.json = "object"
    /\ line.type = "result"
    /\ line.result # None
    /\ line.result # Some("")
    /\ ~line.is_error

\* a line that decodes to an object of type result or error
CompletionLine(line) ==
    /\ line.json = "object"
    /\ line.type \in {"result", "error"}

\* what the for loop of the current attempt has taken: some line that carries
\* a session identifier, marks an upstream error, is a plain result, or decodes
\* to something that is not an object
SessionTaken == \E i \in 1..Len(rs.last_lines) : HasSessionId(rs.last_lines[i])
UpstreamTaken == \E i \in 1..Len(rs.last_lines) : UpstreamLine(rs.last_lines[i])
PlainResultTaken == \E i \in 1..Len(rs.last_lines) : PlainResult(rs.last_lines[i])
NotObjectTaken == \E i \in 1..Len(rs.last_lines) : rs.last_lines[i].json = "nonobject"

\* the supervisor raised the idle timeout with the duration ceiling not reached
IdleOnly == hist.fired.idle /\ ~hist.fired.dur
\* both ceilings were reached in the poll cycle that raised the timeout
BothFired == hist.fired.idle /\ hist.fired.dur

\* ---------------------------------------------------------------- C1
\* C1 (as stated): when the idle window of an attempt has elapsed with the
\* duration ceiling not reached, the supervisor terminates the child within one
\* poll interval: no child that was never signalled is still running later than
\* one poll interval after the idle window elapsed.
C1_IdleChildTerminated ==
    (hist.raised = "idle" /\ proc.state = "running" /\ ~proc.term)
        => now - last_activity_time <= cfg.timeout * TicksPerSecond + PollTicks

\* ---------------------------------------------------------------- C2
\* C2 (as stated): with max_duration D > 0 the time from the start of the
\* invocation to its returned Outcome, less the time spent in teardown, never
\* exceeds D plus one poll interval, however many attempts were made.
C2_TotalTimeBounded ==
    (Returned /\ cfg.max_duration > 0)
        => now - hist.teardown <= cfg.max_duration * TicksPerSecond + PollTicks

\* ---------------------------------------------------------------- C3
\* C3: when both the duration ceiling and the idle window were reached in the
\* poll cycle that raised the timeout, the timeout raised is the duration
\* timeout and the returned Outcome is a failure of kind timeout that carries
\* max_duration_s and no idle_timeout_s.
C3_DurationTakesPrecedence ==
    BothFired =>
        /\ hist.raised = "duration"
        /\ Returned =>
              /\ ~Out.success
              /\ Out.error_kind = Some(TIMEOUT)
              /\ Out.metrics.error_kind = Some(TIMEOUT)
              /\ Detail.max_duration_s = Some(cfg.max_duration)
              /\ Detail.idle_timeout_s = None

\* both ceilings fired in one poll cycle and the invocation returned
C3_Witness == Returned /\ BothFired /\ cfg.max_duration > 0

\* ---------------------------------------------------------------- C4
\* C4: when the executable lookup fails, the invocation has returned, at the
\* time the attempt started, a failure of kind command_not_found; no child was
\* launched for the attempt and no backoff sleep was added (launches and sleeps
\* both number one less than the attempts), whatever retry budget is left.
C4_CommandNotFound ==
    hist.not_found =>
        /\ Returned
        /\ ~Out.success
        /\ Out.error_kind = Some(COMMAND_NOT_FOUND)
        /\ now = hist.t_attempt
        /\ hist.launched = hist.attempts - 1
        /\ Len(hist.sleeps) = hist.attempts - 1

\* the lookup failed with retry budget left
C4_Witness == hist.not_found /\ retries < cfg.max_retries

\* the lookup failed at a later attempt
C4_WitnessLater == hist.not_found /\ hist.attempts > 1

\* ---------------------------------------------------------------- C5
\* the final attempt ended without a timeout and its loop took no line that
\* carries a session identifier
NoSessionObserved ==
    /\ Returned
    /\ ~hist.not_found
    /\ hist.raised = "none"
    /\ ~SessionTaken

\* C5 (as stated): an attempt in which no session identifier is observed yields
\* a failure of kind protocol_missing_session even when its lines include a
\* result line flagged is_error or an error line.
C5_AlwaysMissingSession ==
    (NoSessionObserved /\ UpstreamTaken /\ ~NotObjectTaken)
        => ~Out.success /\ Out.error_kind = Some(PROTOCOL_MISSING_SESSION)

\* C5 (amended): an attempt that ends without a timeout and in which no session
\* identifier is observed yields a failure whose message starts with the
\* missing-session prefix; its kind is protocol_missing_session only if nothing
\* set a kind before: after a fault caught while a line was interpreted it is
\* unexpected_exception, after a result line flagged is_error or an error line
\* it is upstream_error.
C5_MissingSessionUnlessKindSet ==
    NoSessionObserved =>
        /\ ~Out.success
        /\ Out.error[1] = "no SESSION_ID"
        /\ Out.error_kind =
              Some(IF NotObjectTaken THEN UNEXPECTED_EXCEPTION
                   ELSE IF UpstreamTaken THEN UPSTREAM_ERROR
                   ELSE PROTOCOL_MISSING_SESSION)

\* no session identifier, an upstream error line, and the kind it set is kept
C5_Witness ==
    /\ NoSessionObserved
    /\ UpstreamTaken
    /\ Out.error_kind = Some(UPSTREAM_ERROR)
    /\ Out.error[1] = "no SESSION_ID"

\* no session identifier and nothing else wrong: protocol_missing_session
C5_WitnessPlain ==
    /\ NoSessionObserved
    /\ PlainResultTaken
    /\ Out.error_kind = Some(PROTOCOL_MISSING_SESSION)

\* ---------------------------------------------------------------- C6
\* the final attempt took exactly a system/init line and then a plain result
\* line, the child's exit code was 0 and no timeout was raised
InitResultExitZero ==
    /\ Returned
    /\ hist.raised = "none"
    /\ hist.exit_code = Some(0)
    /\ Len(rs.last_lines) = 2
    /\ rs.last_lines[1] = LInit
    /\ PlainResult(rs.last_lines[2])

\* C6: a child that emits a system/init line with a session id, then a result
\* line with non-empty text and no is_error flag, then exits 0 within both time
\* limits yields a success Outcome with the result line's text and the init
\* line's session id.
C6_InitResultSuccess ==
    InitResultExitZero =>
        /\ Out.success
        /\ Out.error_kind = None
        /\ Out.result = <<rs.last_lines[2].result[1]>>
        /\ Out.SESSION_ID = LInit.session_id

\* the scenario of the specification: init "abc", result "done", exit 0
C6_Witness == InitResultExitZero /\ rs.last_lines[2] = LResult

\* the same with a result line that carries another session id
C6_WitnessResultSid == InitResultExitZero /\ rs.last_lines[2] = LResultSid

\* ---------------------------------------------------------------- C7
\* C7: the retries the metrics report always equal the attempts started minus
\* one; and when the final attempt succeeds the returned Outcome is a success
\* with that attempt's result text and session id, whatever failed before.
C7_RetriesCountAttempts ==
    /\ metrics # None => metrics[1].retries = hist.attempts - 1
    /\ Returned => Out.metrics.retries = hist.attempts - 1
    /\ (Returned /\ ~hist.not_found /\ rs.success) =>
          /\ Out.success
          /\ Out.error_kind = None
          /\ Out.result = rs.result_content
          /\ Out.SESSION_ID = rs.session_id

\* the first attempt failed with empty_result, the second succeeded
C7_Witness ==
    /\ Returned
    /\ Out.success
    /\ hist.attempts = 2
    /\ last_error # None
    /\ last_error[1].error_kind = Some(EMPTY_RESULT)
    /\ Out.metrics.retries = 1

\* ---------------------------------------------------------------- C8
\* C8 (as stated): claude_tool and coder_tool never raise.
C8_NeverRaises == ~Raised

\* ---------------------------------------------------------------- C9
\* C9 (as stated): a timed-out attempt is retry-eligible: the invocation never
\* ends on a timeout while retry budget remains.
C9_TimeoutRetried ==
    (tpc \in {"finish", "done"} /\ hist.raised # "none") => retries >= cfg.max_retries

\* C9 (amended): an attempt that ends in a timeout (duration, idle, or the
\* wait for the process) is never retried: after it no backoff sleep happens
\* and no attempt starts, whatever retry budget remains, and the invocation
\* returns the failure of that timeout, kind idle_timeout or timeout.
C9_TimeoutNotRetried ==
    hist.raised # "none" =>
        /\ tpc \in {"body", "cleanup", "timeout", "finish", "done"}
        /\ Len(hist.sleeps) = hist.attempts - 1
        /\ Returned =>
              /\ ~Out.success
              /\ Out.error_kind =
                    Some(IF hist.raised = "idle" THEN IDLE_TIMEOUT ELSE TIMEOUT)

\* a timeout ended the invocation with retry budget left
C9_Witness == Returned /\ hist.raised = "idle" /\ retries < cfg.max_retries

\* the same for the duration timeout
C9_WitnessDuration == Returned /\ hist.raised = "duration" /\ retries < cfg.max_retries

\* ---------------------------------------------------------------- C10
\* C10 (as stated): a child that exits with a non-zero code after a session id
\* and non-empty result text, with no upstream error and no timeout, yields a
\* failure of kind subprocess_error whose error detail carries the exit code.
C10_NonZeroExitFails ==
    (/\ Returned
     /\ hist.raised = "none"
     /\ hist.exit_code # None
     /\ hist.exit_code # Some(0)
     /\ SessionTaken
     /\ PlainResultTaken
     /\ ~UpstreamTaken
     /\ ~NotObjectTaken)
        => /\ ~Out.success
           /\ Out.error_kind = Some(SUBPROCESS_ERROR)
           /\ Detail.exit_code = hist.exit_code

\* ---------------------------------------------------------------- C11
\* the thresholds a failure Outcome carries: idle_timeout_s, the configured
\* idle timeout, exactly when its kind is idle_timeout; max_duration_s, the
\* configured max duration, exactly when its kind is timeout
ThresholdsByKind ==
    /\ Detail.idle_timeout_s =
          (IF Out.error_kind = Some(IDLE_TIMEOUT) THEN Some(cfg.timeout) ELSE None)
    /\ Detail.max_duration_s =
          (IF Out.error_kind = Some(TIMEOUT) THEN Some(cfg.max_duration) ELSE None)

C11_WitnessCoder ==
    /\ Returned
    /\ cfg.tool = "coder"
    /\ Out.error_kind = Some(TIMEOUT)
    /\ hist.raised = "duration"
    /\ Detail.max_duration_s = Some(cfg.max_duration)
    /\ Detail.suggestion = Some("raise max_duration")

\* ---------------------------------------------------------------- C12
\* C12 (as stated): on every exit path of an attempt, when the last cleanup of
\* its scope has run the child is no longer alive, its output stream is closed
\* and the pump thread has terminated; so when the tool returns its Outcome no
\* child of the invocation was left running.
C12_ScopeLeftClean ==
    /\ (Joined /\ cl_site = "finally") =>
          /\ proc.state # "running"
          /\ stdout_closed
          /\ thread = "dead"
    /\ Returned => hist.leaked = 0

\* ---------------------------------------------------------------- C13
\* C13 (as stated): when the generator of an attempt returns (the attempt ends
\* without a timeout), the sequence of lines it yielded to the consumer is
\* exactly the sequence of non-empty lines the pump put on the queue, in the
\* order the child wrote them.
C13_YieldedIsNonEmptyPut ==
    gpc = "returned" => hist.yielded = hist.put

\* ---------------------------------------------------------------- C14
\* the final attempt read a session id and a non-error result line, and the
\* child was still running when the generator came to wait for it
CompleteButRunning ==
    /\ Returned
    /\ hist.waited
    /\ SessionTaken
    /\ PlainResultTaken
    /\ ~UpstreamTaken
    /\ ~NotObjectTaken

\* C14 (as stated): an attempt whose child writes a session id and a non-error
\* result line and then keeps running is classified from its output, a
\* success; it is not turned into a timeout failure because the process did
\* not exit.
C14_CompleteMeansSuccess == CompleteButRunning => Out.success

\* C14 (amended): once the pump has read a line of type result or error it
\* reads no further line, and the supervisor waits for the child to exit. When
\* the child exits within that wait the attempt is classified from its output
\* (a session id and a non-error result line: success). When it does not, the
\* child is terminated and the attempt fails with kind timeout, carrying
\* max_duration_s, whatever it wrote.
C14_CompleteUnlessWaitExpires ==
    /\ \A i \in 1..(Len(hist.put) - 1) : ~CompletionLine(hist.put[i])
    /\ (CompleteButRunning /\ hist.raised = "none") =>
          /\ Out.success
          /\ Out.result = rs.result_content
          /\ Out.SESSION_ID = rs.session_id
    /\ (Returned /\ hist.raised = "wait") =>
          /\ hist.waited
          /\ ~Out.success
          /\ Out.error_kind = Some(TIMEOUT)
          /\ Detail.max_duration_s = Some(cfg.max_duration)

\* the child was still running after a complete session and did not exit
\* within the wait: a timeout failure
C14_Witness ==
    /\ CompleteButRunning
    /\ hist.raised = "wait"
    /\ Out.error_kind = Some(TIMEOUT)

\* the child was still running after a complete session and exited within the
\* wait: a success
C14_WitnessExits == CompleteButRunning /\ hist.raised = "none" /\ Out.success

\* ---------------------------------------------------------------- C15
\* the returned Outcome is a failure of kind timeout
KindTimeout == Returned /\ ~Out.success /\ Out.error_kind = Some(TIMEOUT)

C15_WitnessCeiling == KindTimeout /\ hist.raised = "duration" /\ ~hist.fired.idle

\* ---------------------------------------------------------------- C16
\* the classifier run again over what the final attempt captured
Replayed == Verdict(cfg.tool, rs.last_lines, hist.exit_code, hist.raised)

\* C16: the returned Outcome is a function of the line sequence, the exit code
\* and the timeout signal the final attempt captured: its success flag, error
\* kind, error message, result text and session id are those the classifier
\* gives when it is run again over the same three, whatever the timing, the
\* interleaving of pump and supervisor, and the attempts made before.
C16_ClassifierDeterministic ==
    (Returned /\ ~hist.not_found) =>
        /\ Out.success = Replayed.success
        /\ Out.error_kind = (IF Replayed.success THEN None ELSE Replayed.error_kind)
        /\ Out.error = (IF Replayed.success THEN EmptyStr ELSE Replayed.err_message)
        /\ Out.result = (IF Replayed.success THEN Replayed.result_content ELSE EmptyStr)
        /\ Out.SESSION_ID = (IF Replayed.success THEN Replayed.session_id ELSE None)

\* a second attempt, after a first one that failed, succeeded on the lines of
\* a session
C16_Witness ==
    /\ Returned
    /\ hist.attempts = 2
    /\ rs.last_lines = <<LInit, LResult>>
    /\ Out.success
    /\ Out.SESSION_ID = Some("abc")

\* a second attempt failed after a first one that failed in another way
C16_WitnessFailure ==
    /\ Returned
    /\ hist.attempts = 2
    /\ ~Out.success
    /\ Len(rs.last_lines) > 0
    /\ all_last_lines = rs.last_lines

\* ---------------------------------------------------------------- C17
\* the lines handed to the redaction and the lines it gave back
RedactionIn == LastN(all_last_lines, LastLinesMax)
RedactionOut == Detail.last_lines

\* a failure Outcome built after the retry loop from trailing lines
HasTrailingLines ==
    Returned /\ ~Out.success /\ ~hist.not_found /\ Len(all_last_lines) > 0

\* the line is a user message with a tool_result block in its content list
HasToolResult(line) ==
    /\ line.json = "object"
    /\ line.type = "user"
    /\ line.is_list
    /\ \E j \in 1..Len(line.blocks) : line.blocks[j].type = "tool_result"

\* b is a with the content of its tool_result blocks replaced by the marker:
\* the same blocks in the same order, every other key of the message the same
\* (the layout of the text aside)
SameButToolResults(a, b) ==
    /\ [b EXCEPT !.blocks = <<>>, !.fmt = "compact"]
          = [a EXCEPT !.blocks = <<>>, !.fmt = "compact"]
    /\ Len(b.blocks) = Len(a.blocks)
    /\ \A j \in 1..Len(a.blocks) :
          /\ b.blocks[j].type = a.blocks[j].type
          /\ b.blocks[j].content =
                (IF a.blocks[j].type = "tool_result"
                 THEN "[truncated]" ELSE a.blocks[j].content)

\* C17 (as stated): redaction changes only the content of tool_result blocks
\* inside user messages; every other line is identical to the original, every
\* other field of a redacted message is the original's, and count and order
\* of the lines are preserved up to the cut to the last 50.
C17_OnlyToolResultsChange ==
    HasTrailingLines =>
        /\ Len(RedactionOut) = Len(RedactionIn)
        /\ \A i \in 1..Len(RedactionIn) :
              IF HasToolResult(RedactionIn[i])
              THEN SameButToolResults(RedactionIn[i], RedactionOut[i])
              ELSE RedactionOut[i] = RedactionIn[i]

\* C17 (amended): count and order of the lines are preserved up to the cut to
\* the last 50. A line that is not a user message with a list as content is
\* the original string. A user message with a list as content, with or without
\* a tool_result block, is decoded and written again: it has the original's
\* keys and blocks, in order, with the content of each tool_result block
\* replaced by "[truncated]", in the layout of json.dumps, which need not be
\* the layout the child wrote.
C17_RedactionUpToLayout ==
    HasTrailingLines =>
        /\ Len(RedactionOut) = Len(RedactionIn)
        /\ \A i \in 1..Len(RedactionIn) :
              IF /\ RedactionIn[i].json = "object"
                 /\ RedactionIn[i].type = "user"
                 /\ RedactionIn[i].is_list
              THEN /\ SameButToolResults(RedactionIn[i], RedactionOut[i])
                   /\ RedactionOut[i].fmt = "dumps"
              ELSE RedactionOut[i] = RedactionIn[i]

\* a user message with a text block and a tool result was redacted: the text
\* block kept, the tool result replaced, the line laid out anew
C17_Witness ==
    /\ HasTrailingLines
    /\ \E i \in 1..Len(RedactionIn) :
          /\ RedactionIn[i] = LUserTool
          /\ RedactionOut[i].blocks = <<Block("text", "note"),
                                        Block("tool_result", "[truncated]")>>
          /\ RedactionOut[i].fmt = "dumps"

\* a user message without a tool result was written again in another layout
C17_WitnessRewritten ==
    /\ HasTrailingLines
    /\ \E i \in 1..Len(RedactionIn) :
          /\ RedactionIn[i] = LUserText
          /\ RedactionOut[i] # LUserText
          /\ SameButToolResults(LUserText, RedactionOut[i])

\* ---------------------------------------------------------------- C18
\* the invocation is over: it returned or raised
Ended == Returned \/ Raised

\* a step that starts an attempt
AttemptStarts == hist'.attempts = hist.attempts + 1

\* C18: with max_retries >= 0 an invocation never starts more than
\* max_retries + 1 attempts and has started at least one when it is over; a
\* further attempt (the one after attempt k, counted from 0) is started only
\* when attempt k has failed and k < max_retries, so none is started after a
\* successful attempt.
C18_AttemptsBounded ==
    /\ [](cfg.max_retries >= 0 =>
            /\ hist.attempts <= cfg.max_retries + 1
            /\ Ended => hist.attempts >= 1)
    /\ [][(AttemptStarts /\ hist.attempts >= 1) =>
            /\ ~rs.success
            /\ hist.attempts - 1 < cfg.max_retries]_vars

\* max_retries + 1 = 3 attempts were made, all failed
C18_Witness ==
    /\ Returned
    /\ cfg.max_retries = 2
    /\ hist.attempts = 3
    /\ ~Out.success

\* budget for a retry was left when the first attempt succeeded
C18_WitnessSuccess ==
    /\ Returned
    /\ cfg.max_retries >= 1
    /\ hist.attempts = 1
    /\ Out.success

\* ---------------------------------------------------------------- C19
\* C19: the backoff sleep after failed attempt k (counted from 0) lasts
\* 0.5 * 2^k seconds; a sleep happens only between a failed attempt and the
\* next one: never before the first attempt, and never after the final attempt
\* of the invocation, be it a success or the last permitted failure.
C19_BackoffDoubles ==
    /\ \A i \in 1..Len(hist.sleeps) :
          2 * hist.sleeps[i] = TicksPerSecond * (2 ^ (i - 1))
    /\ Len(hist.sleeps) <= hist.attempts
    /\ hist.attempts >= 1 =>
          Len(hist.sleeps) = (IF tpc = "while" THEN hist.attempts ELSE hist.attempts - 1)
    /\ Ended => Len(hist.sleeps) = hist.attempts - 1 \/ hist.attempts = 0
    /\ cfg.max_retries >= 0 => Len(hist.sleeps) <= cfg.max_retries

\* three failed attempts with max_retries = 2: sleeps of 0.5 s and 1 s, and
\* none after the third
C19_Witness ==
    /\ Returned
    /\ ~Out.success
    /\ cfg.max_retries = 2
    /\ hist.attempts = 3
    /\ hist.sleeps = <<TicksPerSecond \div 2, TicksPerSecond>>

\* a success at the second attempt: one sleep, before it
C19_WitnessSuccess ==
    /\ Returned
    /\ Out.success
    /\ cfg.max_retries = 2
    /\ hist.attempts = 2
    /\ hist.sleeps = <<TicksPerSecond \div 2>>

\* ---------------------------------------------------------------- C20
\* C20 (as stated): retries never overlap: while the child of an attempt is
\* running, no child of an earlier attempt of the invocation was left running
\* when its attempt ended.
C20_NoOverlap == proc.state = "running" => hist.leaked = 0

\* ---------------------------------------------------------------- C21
\* the last cleanup of the attempt's scope, called by the finally clause of the
\* context manager, is done
ScopeCleanedUp == Joined /\ cl_site = "finally"

\* the attempt left its scope on a fault of the consumer
ConsumerFault == exc = "attr"

\* C21 (as stated): cleanup runs exactly once per attempt on the way out, on
\* each exit path: normal completion, a timeout raised by the supervisor loop,
\* an exception raised in the consumer.
C21_CleanupExactlyOnce == ScopeCleanedUp => hist.cleanups = 1

\* C21 (amended): cleanup runs on every exit path of an attempt, and the last
\* call is that of the finally clause: once when the with block ends normally
\* (the stream ended, or the consumer broke out of it); twice when an exception
\* leaves the with block (a fault of the consumer, or the timeout of the wait
\* for the process): the except clause, then the finally clause; three times
\* when the supervisor loop raised a timeout: the generator before it raises,
\* then the except clause, then the finally clause.
C21_CleanupOncePerClause ==
    /\ ScopeCleanedUp =>
          hist.cleanups = (IF hist.raised \in {"idle", "duration"} THEN 3
                           ELSE IF hist.raised = "wait" \/ ConsumerFault THEN 2
                           ELSE 1)
    /\ tpc \in {"classify", "timeout"} => hist.cleanups >= 1
    /\ tpc = "cleanup" => hist.cleanups >= 1

\* the supervisor loop raised the idle timeout and the scope was left after
\* three calls of cleanup
C21_Witness == ScopeCleanedUp /\ hist.raised = "idle" /\ hist.cleanups = 3

\* a fault of the consumer: two calls
C21_WitnessFault == ScopeCleanedUp /\ ConsumerFault /\ hist.cleanups = 2

\* the stream ended normally: one call
C21_WitnessNormal ==
    ScopeCleanedUp /\ exc = "none" /\ gpc = "finished" /\ hist.cleanups = 1

\* ---------------------------------------------------------------- C22
\* an earlier call of cleanup in this attempt has left the child exited, the
\* stream closed and the pump finished, and a later call is running
LaterCallOnCleanState ==
    /\ tpc = "cleanup"
    /\ hist.cleanups >= 2
    /\ proc.state = "exited"
    /\ stdout_closed
    /\ thread = "dead"

\* a step inside one call of cleanup
StepOfCleanup ==
    /\ tpc = "cleanup"
    /\ tpc' = "cleanup"
    /\ hist'.cleanups = hist.cleanups

\* C22: a second or later call of cleanup, after a call that left the child
\* exited, the stream closed and the pump finished, sends no terminate and no
\* kill signal, closes nothing, waits for nothing and raises nothing: its steps
\* change no part of the attempt's state (process, stream, pump thread, queue,
\* counters, clock, the pending exception, the attempt's variables) and it ends
\* at the join, from where the caller goes on.
C22_TeardownIdempotent ==
    [][(LaterCallOnCleanState /\ StepOfCleanup) =>
          /\ proc' = proc
          /\ stdout_closed' = stdout_closed
          /\ thread' = thread
          /\ output_queue' = output_queue
          /\ raw_output_lines_holder' = raw_output_lines_holder
          /\ now' = now
          /\ exc' = exc
          /\ rs' = rs
          /\ hist'.teardown = hist.teardown
          /\ cl_site' = cl_site
          /\ cpc' \in {"signal", "join"}]_vars

\* a second call has passed its signal step on a child that had exited by
\* itself: no signal was sent
C22_Witness ==
    /\ LaterCallOnCleanState
    /\ cpc = "join"
    /\ hist.cleanups = 2
    /\ ~proc.term
    /\ ~proc.kill

\* a third call, after the first one terminated the child
C22_WitnessThird ==
    /\ LaterCallOnCleanState
    /\ cpc = "join"
    /\ hist.cleanups = 3
    /\ proc.term
    /\ proc.returncode = Some(SIGTERM_RC)

\* ---------------------------------------------------------------- C23
\* the steps of cleanup in the order of its body, and the two ways on from
\* the join: the next call of the scope, or out of the with statement
CleanupOrder ==
    {<<"idle", "close">>, <<"close", "signal">>, <<"signal", "join">>,
     <<"join", "close">>, <<"join", "idle">>}

\* C23: within one teardown the stream is closed first, then the child is
\* signalled, then the pump is joined. The terminate signal is sent only with
\* the stream closed and only to a child that has not exited; the kill signal
\* is sent only after a terminate signal and a graceful wait of 5 s in which
\* the child did not exit; and the teardown is left only through the join,
\* whatever the signals achieved.
C23_TeardownOrder ==
    /\ []((tpc = "cleanup" /\ cpc \in {"signal", "join"}) => stdout_closed)
    /\ [][cpc' # cpc => <<cpc, cpc'>> \in CleanupOrder]_vars
    /\ [][(tpc = "cleanup" /\ ~proc.term /\ proc'.term) =>
             /\ cpc = "signal"
             /\ stdout_closed
             /\ proc.state = "running"]_vars
    /\ [][(tpc = "cleanup" /\ ~proc.kill /\ proc'.kill) =>
             /\ proc'.term
             /\ proc.state = "running"
             /\ now' - now >= TermWaitS * TicksPerSecond]_vars
    /\ [][(tpc = "cleanup" /\ (tpc' # "cleanup" \/ hist'.cleanups # hist.cleanups))
             => Joined]_vars

\* the pump was joined after terminate and kill had both failed to end the child
C23_Witness ==
    /\ Joined
    /\ stdout_closed
    /\ proc.state = "running"
    /\ proc.term
    /\ proc.kill

\* the pump was joined after a child that obeyed the terminate signal
C23_WitnessTerminated ==
    /\ Joined
    /\ proc.returncode = Some(SIGTERM_RC)
    /\ ~proc.kill

\* ---------------------------------------------------------------- C24
\* the generator is inside process.wait() without a limit, after terminate and
\* kill, and the child has not exited
UnboundedWait == gpc = "blocked" /\ proc.state = "running"

\* C24 (as stated): every wait on the child on every exit path of an attempt
\* has a limit, so that a child that never exits in response to the terminate
\* and kill signals cannot keep the attempt from ending with a verdict: the
\* caller is never inside a wait that only the exit of the child can end.
C24_EveryWaitBounded == ~UnboundedWait

\* ---------------------------------------------------------------- C25
\* the pump of the current attempt has put its end sentinel
SentinelPut == hist.sentinels >= 1

\* C25: in every attempt the pump puts the end sentinel exactly once, as the
\* last item it puts, and does so on every way it can stop: once the stream is
\* at its end, a completion marker was read, or the stream was closed under it,
\* the pump thread ends and the sentinel is in the queue; and the supervisor
\* loop, once entered, is always left again.
C25_SentinelOnceAndLast ==
    /\ [](hist.sentinels = (IF thread = "dead" THEN 1 ELSE 0))
    /\ [](\A i \in 1..Len(output_queue) :
             output_queue[i] = Sentinel => (i = Len(output_queue) /\ thread = "dead"))
    /\ [][(thread = "dead" /\ thread' = "dead")
             => Len(output_queue') <= Len(output_queue)]_vars
    /\ [][(thread # "dead" /\ thread' = "dead") =>
             /\ output_queue' = Append(output_queue, Sentinel)
             /\ hist'.put = hist.put]_vars
    /\ (PumpMayStop ~> (thread = "dead" /\ SentinelPut))
    /\ (Supervising ~> ~Supervising)

\* the pump stopped on a completion marker, the child still running: the
\* sentinel is the last item of the queue
C25_Witness ==
    /\ thread = "dead"
    /\ proc.state = "running"
    /\ hist.sentinels = 1
    /\ Len(output_queue) >= 2
    /\ output_queue[Len(output_queue)] = Sentinel
    /\ CompletionLine(output_queue[Len(output_queue) - 1])

\* the pump stopped at the end of the stream of a child that wrote no
\* completion marker
C25_WitnessEndOfStream ==
    /\ thread = "dead"
    /\ proc.state = "exited"
    /\ hist.sentinels = 1
    /\ Len(hist.put) > 0
    /\ \A i \in 1..Len(hist.put) : ~CompletionLine(hist.put[i])

\* the stream was closed by cleanup under a pump that had not stopped yet
C25_WitnessClosedUnder ==
    /\ thread = "read"
    /\ stdout_closed
    /\ tpc = "cleanup"

\* ---------------------------------------------------------------- C26
\* the longest time, up to now, in which no line of the current attempt's
\* child arrived from the pump: between the start and the first line, between
\* two lines, or since the last line
Silence ==
    IF now - hist.last_put > hist.maxgap THEN now - hist.last_put ELSE hist.maxgap

C27_IdleOnlyAfterSilence ==
    (gpc = "timedout" /\ timeout_error = "idle") =>
        /\ Silence >= cfg.timeout * TicksPerSecond
        /\ \A i \in 1..Len(output_queue) : output_queue[i] = Sentinel

\* ---------------------------------------------------------------- C28
\* C28 (as stated): the final attempt is a success if and only if none of these
\* holds for it: a timeout was raised, a line signalled an upstream error, no
\* session identifier was observed, the result text is empty, the exit code is
\* known and non-zero; and with a session identifier, no error flagged and no
\* result text its kind is empty_result.
C28_SuccessIffNoCause ==
    (Returned /\ ~hist.not_found) =>
        /\ Out.success <=>
              ~(\/ hist.raised # "none"
                \/ UpstreamTaken
                \/ ~SessionTaken
                \/ rs.result_content = EmptyStr
                \/ (hist.exit_code # None /\ hist.exit_code # Some(0)))
        /\ (/\ hist.raised = "none"
            /\ SessionTaken
            /\ ~rs.had_error
            /\ rs.result_content = EmptyStr)
              => (~Out.success /\ Out.error_kind = Some(EMPTY_RESULT))

\* ------------------------------------------------------------------- C29
\* the assistant lines of the attempt that carry text, in arrival order
Fragments ==
    SelectSeq(rs.last_lines,
              LAMBDA l : l.json = "object" /\ l.type = "assistant" /\ l.text # "")
\* the positions of the result lines that supply non-empty result text
ResultSupplied ==
    {i \in 1..Len(rs.last_lines) :
        /\ rs.last_lines[i].json = "object"
        /\ rs.last_lines[i].type = "result"
        /\ rs.last_lines[i].result # None
        /\ rs.last_lines[i].result # Some("")}
\* the attempt read its line stream to the end of the loop (no timeout, and the
\* command was found)
StreamClassified == Returned /\ ~hist.not_found /\ hist.raised = "none"

\* C29: in an attempt that is classified after its line stream, when no result
\* line supplied non-empty text the result text is the assistant text
\* fragments of the attempt in arrival order with one blank line between two
\* of them (empty if there are none); when a result line supplied non-empty
\* text, the result text is that text and no fragment is in it; a success
\* returns this result text.
C29_ResultTextFallback ==
    StreamClassified =>
        /\ IF ResultSupplied # {}
           THEN \E i \in ResultSupplied :
                  /\ \A j \in ResultSupplied : j <= i
                  /\ rs.result_content = <<rs.last_lines[i].result[1]>>
           ELSE IF Len(Fragments) = 0
           THEN rs.result_content = EmptyStr
           ELSE /\ Len(rs.result_content) = 2 * Len(Fragments) - 1
                /\ \A k \in 1..Len(Fragments) :
                     rs.result_content[2 * k - 1] = Fragments[k].text
                /\ \A k \in 1..(Len(Fragments) - 1) :
                     rs.result_content[2 * k] = ""
        /\ Out.success => Out.result = rs.result_content

\* two fragments and no result line: the success returns them in arrival
\* order (not in the order of the texts) around a blank line
C29_Witness ==
    /\ StreamClassified
    /\ Out.success
    /\ ResultSupplied = {}
    /\ Len(Fragments) = 2
    /\ Out.result = <<"there", "", "hi">>

\* a fragment, then a result line with text: the result is the line's text
C29_WitnessResultWins ==
    /\ StreamClassified
    /\ Out.success
    /\ ResultSupplied # {}
    /\ Len(Fragments) > 0
    /\ Out.result = <<"done">>

\* ------------------------------------------------------------------- C30
\* the classifier run from a fresh Run State over what the generator yielded
\* in the final attempt and the timeout it raised
FromFinalAttempt == Verdict(cfg.tool, hist.yielded, hist.exit_code, hist.raised)

\* C30: the Outcome returned after the retry loop is the one the final attempt
\* gives alone, from a fresh Run State: success flag, error kind, message,
\* result text, session id and message trace, and for a failure the exit code,
\* the trailing lines and the decode-error count of the error detail, are
\* those of the lines, the exit code and the timeout of the final attempt,
\* whatever earlier attempts observed.
C30_OutcomeFromFinalAttempt ==
    (Returned /\ ~hist.not_found) =>
        LET v == FromFinalAttempt
        IN /\ Out.success = v.success
           /\ Out.error_kind = (IF v.success THEN None ELSE v.error_kind)
           /\ Out.error = (IF v.success THEN EmptyStr ELSE v.err_message)
           /\ Out.result = (IF v.success THEN v.result_content ELSE EmptyStr)
           /\ Out.SESSION_ID = (IF v.success THEN v.session_id ELSE None)
           /\ Out.all_messages = Some(v.all_messages)
           /\ Out.metrics.exit_code = v.exit_code
           /\ Out.metrics.json_decode_errors = v.json_decode_errors
           /\ ~v.success =>
                 /\ Detail.message = FirstLine(v.err_message)
                 /\ Detail.exit_code = v.exit_code
                 /\ Detail.json_decode_errors =
                        (IF v.json_decode_errors > 0
                         THEN Some(v.json_decode_errors) ELSE None)
                 /\ Detail.last_lines = filter_last_lines(hist.yielded)

\* a third attempt failed without a session id after two attempts that had
\* observed one: the failure carries the third attempt's line only
C30_Witness ==
    /\ Returned
    /\ hist.attempts = 3
    /\ ~Out.success
    /\ hist.yielded = <<LResult>>
    /\ Detail.last_lines = <<LResult>>
    /\ Out.all_messages = Some(<<LResult>>)
    /\ Out.error_kind = Some(PROTOCOL_MISSING_SESSION)

\* a second attempt succeeded after a failed one that had left trailing lines
C30_WitnessSuccess ==
    /\ Returned
    /\ hist.attempts = 2
    /\ Out.success
    /\ Len(all_last_lines) > 0
    /\ Out.all_messages = Some(hist.yielded)

\* ------------------------------------------------------------------- C31
\* C31: at every point of an attempt the trailing-line window holds at most 50
\* lines and is the last min(n, 50) of the n lines taken so far, in arrival
\* order; and the last_lines of a failure Outcome has at most 50 entries, one
\* for each of the last min(n, 50) lines of the attempt. (The lines taken so
\* far are those yielded, less the one the generator has just yielded and the
\* body of the loop has not appended yet.)
C31_TrailingWindow ==
    LET TakenSoFar == IF cur_line # None
                      THEN SubSeq(hist.yielded, 1, Len(hist.yielded) - 1)
                      ELSE hist.yielded
        n == Len(TakenSoFar)
        w == Len(rs.last_lines)
    IN /\ w <= 50
       /\ hist.attempts > 0 =>
             /\ w = (IF n < 50 THEN n ELSE 50)
             /\ \A i \in 1..w : rs.last_lines[i] = TakenSoFar[n - w + i]
       /\ (Returned /\ ~Out.success /\ ~hist.not_found) =>
             /\ Len(Detail.last_lines) <= 50
             /\ Len(Detail.last_lines) = (IF n < 50 THEN n ELSE 50)

\* more than 50 lines were taken: the window starts at the third line of 52,
\* which is not the line the stream started with
C31_Witness ==
    /\ Len(hist.yielded) = 52
    /\ cur_line = None
    /\ Len(rs.last_lines) = 50
    /\ rs.last_lines[1] = hist.yielded[3]
    /\ rs.last_lines[1] # hist.yielded[1]

\* a failure after more than 50 lines reports 50 of them
C31_WitnessFailure ==
    /\ Returned
    /\ ~Out.success
    /\ Len(hist.yielded) > 50
    /\ Len(Detail.last_lines) = 50

\* ------------------------------------------------------------------- C32
\* C32 (as stated): the hand-off queue is bounded by a capacity that does not
\* depend on how much the child writes: the lines waiting in it (the sentinel
\* not counted) are always fewer than the longest stream a child writes.
C32_QueueBounded ==
    Cardinality({i \in 1..Len(output_queue) : output_queue[i] # Sentinel}) < MaxLines

\* ------------------------------------------------------------------- C33
\* C33 (as stated): in the grace window after a completion marker the pump
\* still reads what the child writes: while the window lasts and the child has
\* a line to write, the pump can take it.
C33_GraceWindowPumped ==
    (/\ thread = "grace"
     /\ Supervising
     /\ proc.state = "running"
     /\ ~stdout_closed
     /\ budget > 0) => ENABLED PumpRead

\* C33 (amended): a completion marker is the last line the pump reads. After it
\* the pump sleeps the grace delay without reading; its next and last step
\* closes the stream and enqueues the sentinel. What the child writes after
\* the marker is never put into the queue.
C33_MarkerEndsPumping ==
    /\ [](\A i \in 1..(Len(hist.put) - 1) : ~is_session_completed(hist.put[i]))
    /\ []((Len(hist.put) > 0 /\ is_session_completed(hist.put[Len(hist.put)]))
            => thread \in {"grace", "dead"})
    /\ [][thread = "grace" =>
            /\ hist'.put = hist.put \/ hist'.put = <<>>
            /\ raw_output_lines_holder' = raw_output_lines_holder
                 \/ raw_output_lines_holder' = 0
            /\ \/ thread' = "grace" /\ hist'.sentinels = hist.sentinels
               \/ /\ thread' = "dead"
                  /\ stdout_closed'
                  /\ output_queue' = Append(output_queue, Sentinel)]_vars

\* the pump stopped after the grace sleep while the child, still running, had
\* more to write: the marker is the last line it put
C33_Witness ==
    /\ thread = "dead"
    /\ Len(hist.put) > 0
    /\ is_session_completed(hist.put[Len(hist.put)])
    /\ hist.sentinels = 1
    /\ proc.state = "running"
    /\ budget > 0
    /\ Supervising

\* ------------------------------------------------------------------- C34
\* C34: the raw-line counter changes only in a step of the pump thread, which
\* adds one for a line it puts (launching the attempt sets it to 0); the
\* generator reads it once, in its return statement, and from the end of the
\* supervisor loop without a timeout up to that read the pump thread has
\* terminated, so the value read is final.
C34_CounterReadAfterPump ==
    /\ [][raw_output_lines_holder' # raw_output_lines_holder =>
            \/ /\ thread = "read"
               /\ raw_output_lines_holder' = raw_output_lines_holder + 1
               /\ Len(output_queue') = Len(output_queue) + 1
            \/ raw_output_lines_holder' = 0]_vars
    /\ []((tpc = "body" /\ gpc \in {"wait", "drain", "yielded_drain", "returned"})
            => thread = "dead")
    /\ [][(gen_return' # gen_return /\ gen_return' # None) =>
            /\ thread = "dead"
            /\ gen_return'[1].raw_output_lines = raw_output_lines_holder
            /\ gen_return'[1].raw_output_lines = Len(hist.put)]_vars

\* the generator returned the count of two lines after the pump had stopped
C34_Witness ==
    /\ gpc = "returned"
    /\ gen_return # None
    /\ gen_return[1].raw_output_lines = 2
    /\ thread = "dead"

\* ------------------------------------------------------------------- C35
\* C35 (as stated): for an attempt that ends without a timeout, the metrics
\* record as raw output line count the number of non-empty lines the pump read
\* in the attempt (all of them were yielded, the consumer not having left the
\* loop early), and as exit code the exit code of the child.
C35_MetricsCountAndExit ==
    (Returned /\ ~hist.not_found /\ hist.raised = "none" /\ ~NotObjectTaken) =>
        /\ Out.metrics.raw_output_lines =
              Cardinality({i \in 1..Len(hist.yielded) : Truthy(hist.yielded[i])})
        /\ Out.metrics.exit_code = hist.exit_code

\* ------------------------------------------------------------------- C36
\* C36 (as stated): a fault raised while a line is interpreted (the line
\* decodes to a JSON value that is not an object) never leaves the tool, in
\* claude_tool as in coder_tool: the invocation returns, and the attempt that
\* took the line is a failure of kind unexpected_exception.
C36_FaultCaptured ==
    NotObjectTaken =>
        /\ ~Raised
        /\ Returned => (~Out.success /\ Out.error_kind = Some(UNEXPECTED_EXCEPTION))

\* ------------------------------------------------------------------- C37
\* C37 (as stated): the consumer never receives an empty line, whichever way
\* the supervisor loop ends and whatever the drain loop finds in the queue,
\* and the decode errors counted are those of the non-empty lines that are
\* not JSON.
C37_NoEmptyLineYielded ==
    /\ \A i \in 1..Len(hist.yielded) : Truthy(hist.yielded[i])
    /\ rs.json_decode_errors =
          Cardinality({i \in 1..Len(rs.last_lines) : rs.last_lines[i].json = "invalid"})

\* ------------------------------------------------------------------- C38
\* C38 (as stated): launching cannot deadlock with the child: while the prompt
\* is being written to the child's input stream, before the pump thread is
\* started, the tool or the child can always take a step, whatever the child
\* writes before it reads its input.
C38_LaunchNeverStuck ==
    tpc = "write" => ENABLED (StdinWrite \/ StdinDone \/ ChildBeforePump)
====
